---- MODULE Spec2Model ----
(***************************************************************************)
(* mandoline-ci: the diff-to-evaluation pipeline.                          *)
(*                                                                         *)
(* The specifications share the variables below:                           *)
(*   SpecExec    executeEvaluations called directly (core.ts)              *)
(*   SpecRef     the reference resolver (git.ts)                           *)
(*   SpecPipe    MandolineCI.evaluateDiff: prepareEvaluationContext, then  *)
(*               executeEvaluations (core.ts)                              *)
(*   SpecIntent  extractIntent (intent.ts)                                 *)
(*   SpecDiff    analyzeGitDiff (git.ts)                                   *)
(*   SpecFormat  formatPrompt (formatters/payload.ts)                      *)
(*   SpecSetup   validateSetupEnvironment (core.ts)                        *)
(*                                                                         *)
(* Numbers are the program's numbers times 1000 (0.2 is 200, -0.333 is     *)
(* -333).  An optional value (undefined in the program) is the empty       *)
(* tuple, a present value v is <<v>>.  A string the program concatenates   *)
(* is a sequence of its pieces.                                            *)
(***************************************************************************)
EXTENDS Integers, Sequences, FiniteSets, TLC

VARIABLES
  \* ---- executeEvaluations (core.ts) ----
  configs,        \* options.configs
  gitDiff,        \* options.gitDiff: [base, head, files]
  intentSource,   \* options.intentSource: [source, content]
  workTree,       \* the paths of the working directory globby expands against
  pc,             \* where the run is
  ci,             \* index of the config the for-loop is at
  filteredFiles,  \* filteredFiles of the current config
  pending,        \* the Object.entries still to be iterated for the current config
  results,        \* the local results array
  returned,       \* what the call returned to its caller (None while running or thrown)
  error,          \* the error the call raised (None if none)
  calls,          \* the requests client.createEvaluation received, in order
  trail,          \* history: for each scorer call, the (config index, rule key) it was made for
  \* ---- reference resolver (git.ts) ----
  gitContext,     \* the GitContext: [env, options]
  repo,           \* the repository: [resolves, headParents]
  refPc,          \* where the resolution is
  refEntry,       \* the exported function that was called
  contextType,    \* the context type handed to selectReferences
  selection,      \* the ReferenceSelection in hand (None before selection)
  refResult,      \* the ReferenceSelection returned (None while running or thrown)
  refError,       \* the error raised (None if none)
  firstOutcome,   \* history: how the first of two calls ended (None before it has)
  \* ---- MandolineCI.evaluateDiff (core.ts) ----
  options,        \* the EvaluateDiffOptions: [base, head, intent]
  pipeWorld,      \* the repository the run meets: [resolvable, emptyDiff]
  pipePc,         \* where the run is
  stages,         \* history: the collaborators called so far, in order
  loaded,         \* the configs discoverConfig returned
  warned,         \* the warning emitted after validation (None if none)
  prepared,       \* what prepareEvaluationContext has in hand: [intentSource, gitDiff]
  pipeReturned,   \* what evaluateDiff returned (None while running or thrown)
  pipeError,      \* the error evaluateDiff raised (None if none)
  \* ---- extractIntent (intent.ts) ----
  intentArgs,     \* the arguments: [base, head, manualIntent]
  intentWorld,    \* what the call can read: [env, event, git]
  intentPc,       \* where the call is
  intentLog,      \* history: what the call read, queried and warned about, in order
  intentOut,      \* the IntentSource returned (None while running or thrown)
  intentErr,      \* the error raised (None if none)
  \* ---- analyzeGitDiff (git.ts) ----
  diffArgs,       \* the arguments: [base, head]
  diffWorld,      \* what git answers: [checkIsRepo, summary, nameStatus]
  diffPc,         \* where the call is
  diffIndex,      \* index of the summary file the loop is at
  diffFiles,      \* the local files array
  diffLog,        \* history: the git commands issued for the files, in order
  diffAnswers,    \* history: what git answered for each file analyzed, in order
  diffOut,        \* the GitDiffResult returned (None while running or thrown)
  diffErr,        \* the error raised (None if none)
  \* ---- formatPrompt (formatters/payload.ts) ----
  fmtArgs,        \* the arguments: [intent, files]
  fmtPc,          \* where the call is
  fmtOut,         \* the prompt returned (None before the return)
  \* ---- validateSetupEnvironment (core.ts) ----
  setupWorld,     \* what the checks meet: [isGitRepo, api, discovery]
  setupPc,        \* where the call is
  setupLog,       \* history: the checks run so far, in order
  setupErrors,    \* the local errors array
  setupWarnings,  \* the local warnings array
  setupOut        \* the ValidationResult returned (None before the return)

execVars == <<configs, gitDiff, intentSource, workTree, pc, ci, filteredFiles,
              pending, results, returned, error, calls, trail>>

refVars == <<gitContext, repo, refPc, refEntry, contextType, selection, refResult,
             refError, firstOutcome>>

pipeVars == <<options, pipeWorld, pipePc, stages, loaded, warned, prepared, pipeReturned,
              pipeError>>

intentVars == <<intentArgs, intentWorld, intentPc, intentLog, intentOut, intentErr>>

diffVars == <<diffArgs, diffWorld, diffPc, diffIndex, diffFiles, diffLog, diffAnswers,
              diffOut, diffErr>>

formatVars == <<fmtArgs, fmtPc, fmtOut>>

setupVars == <<setupWorld, setupPc, setupLog, setupErrors, setupWarnings, setupOut>>

\* The state of the units specified on their own
unitVars == <<intentVars, diffVars, formatVars, setupVars>>

coreVars == <<execVars, refVars, pipeVars>>

\* Everything but the intent extractor
besideIntent == <<coreVars, diffVars, formatVars, setupVars>>

\* Everything but the diff analyzer
besideDiff == <<coreVars, intentVars, formatVars, setupVars>>

\* Everything but the prompt formatter
besideFormat == <<coreVars, intentVars, diffVars, setupVars>>

\* Everything but the setup validation
besideSetup == <<coreVars, intentVars, diffVars, formatVars>>

vars == <<coreVars, unitVars>>

(***************************************************************************)
(* Optional values and small helpers                                       *)
(***************************************************************************)
None == <<>>
Some(v) == <<v>>

\* The number NaN: a value outside every range the model uses, which the comparisons
\* below treat as the program's comparisons treat NaN (each of them is false)
NaN == 1000000000

LessThan(a, b) == a # NaN /\ b # NaN /\ a < b
GreaterThan(a, b) == a # NaN /\ b # NaN /\ a > b
AtLeast(a, b) == a # NaN /\ b # NaN /\ a >= b

\* Array.prototype.join: the pieces of the items with the delimiter between items
RECURSIVE Join(_, _)
Join(items, delim) ==
  IF items = <<>> THEN <<>>
  ELSE IF Len(items) = 1 THEN Head(items)
  ELSE Head(items) \o <<delim>> \o Join(Tail(items), delim)

(***************************************************************************)
(* Constants of the program                                                *)
(***************************************************************************)
DEFAULT_THRESHOLD == -333

getDefaultThreshold == DEFAULT_THRESHOLD

SECTION_DELIMITER == "\n---\n"

(***************************************************************************)
(* Bounds and input universes                                              *)
(***************************************************************************)
MaxConfigs == 2

Paths == {"src/a.ts", "src/b.ts", "docs/r.md"}

\* The scores the scorer may return (0.1, 0.2, 0.3)
Scores == {100, 200, 300}


\* Length bound of gitDiff.files
MaxFiles == 2

\* Metric identifiers: strings that match the UUID pattern of isValidUUID
UuidQuality == "11111111-1111-4111-8111-111111111111"
UuidRegression == "22222222-2222-4222-8222-222222222222"
UuidIndex7 == "33333333-3333-4333-8333-333333333333"
UuidIndex3 == "44444444-4444-4444-8444-444444444444"
UuidStyle == "55555555-5555-4555-8555-555555555555"

Rule(metricId, threshold, scoreObjective) ==
  [metricId |-> metricId, threshold |-> threshold, scoreObjective |-> scoreObjective]

\* One key: value line of a rules object literal
Decl(key, rule) == [key |-> key, rule |-> rule]

\* A config's rules are given as declared: the key/value lines in source order.
CfgSrc ==
  [name |-> "src", files |-> <<"src/**/*.ts">>, ignores |-> Some(<<"src/b.ts">>),
   rules |-> << Decl("quality", Rule(UuidQuality, None, None)),
                Decl("regression", Rule(UuidRegression, Some(200), Some("minimize"))) >>]

CfgDocs ==
  [name |-> "docs", files |-> <<"docs/**">>, ignores |-> None,
   rules |-> << Decl("7", Rule(UuidIndex7, Some(0), Some("maximize"))),
                Decl("3", Rule(UuidIndex3, Some(200), None)) >>]

CfgAll ==
  [name |-> "all", files |-> <<"**/*">>, ignores |-> Some(<<>>),
   rules |-> << Decl("style", Rule(UuidStyle, Some(0), Some("minimize"))) >>]

CfgEmptyFiles ==
  [name |-> "empty", files |-> <<>>, ignores |-> None,
   rules |-> << Decl("quality", Rule(UuidQuality, None, None)) >>]

CfgNoRules ==
  [name |-> "norules", files |-> <<"src/b.ts", "docs/**">>, ignores |-> Some(<<"docs/**">>),
   rules |-> <<>>]

ExecConfigs == {CfgSrc, CfgDocs, CfgAll, CfgEmptyFiles, CfgNoRules}

SeqsUpTo(S, n) == UNION {[1..k -> S] : k \in 0..n}

ConfigLists == SeqsUpTo(ExecConfigs, MaxConfigs)

\* The GitFileChange the diff extractor reports for a path
ChangeOf(path) ==
  CASE path = "src/a.ts" ->
         [path |-> path, status |-> "modified",
          beforeContent |-> Some("console.log(1);"), diff |-> "diff --git a/src/a.ts"]
    [] path = "src/b.ts" ->
         [path |-> path, status |-> "added",
          beforeContent |-> None, diff |-> "diff --git a/src/b.ts"]
    [] OTHER ->
         [path |-> path, status |-> "deleted",
          beforeContent |-> Some("# readme"), diff |-> ""]

\* gitDiff.files: changed files in diff-summary order, no path twice
DiffFileLists ==
  {[i \in 1..Len(ps) |-> ChangeOf(ps[i])] :
     ps \in {q \in SeqsUpTo(Paths, MaxFiles) :
               \A i, j \in 1..Len(q) : i # j => q[i] # q[j]}}

\* Working directories: everything checked out, or the deleted file gone
WorkTrees == {Paths, Paths \ {"docs/r.md"}}

(***************************************************************************)
(* Configuration Router: filterFilesForConfig (core.ts)                    *)
(***************************************************************************)
\* The paths of the universe a glob pattern matches
GlobMatches(pattern) ==
  CASE pattern = "src/**/*.ts" -> {"src/a.ts", "src/b.ts"}
    [] pattern = "docs/**" -> {"docs/r.md"}
    [] pattern = "src/b.ts" -> {"src/b.ts"}
    [] pattern = "**/*" -> Paths
    [] OTHER -> {}

\* globby(patterns, {cwd}): the existing paths matching at least one pattern
globby(patterns, tree) ==
  {p \in tree : \E i \in 1..Len(patterns) : p \in GlobMatches(patterns[i])}

filterFilesForConfigIncludedOnly(files, config, tree) ==
  SelectSeq(files, LAMBDA file : file.path \in globby(config.files, tree))

filterFilesForConfig(files, config, tree) ==
  LET includedPaths == globby(config.files, tree)
      filteredPaths ==
        IF config.ignores # None /\ Len(config.ignores[1]) > 0
        THEN includedPaths \ globby(config.ignores[1], tree)
        ELSE includedPaths
  IN SelectSeq(files, LAMBDA file : file.path \in filteredPaths)

(***************************************************************************)
(* Evaluation Executor: executeEvaluations (core.ts)                       *)
(***************************************************************************)
\* The value of a key that is a canonical array index ("3" is 3), -1 for any other key
ArrayIndex(key) ==
  CASE key = "3" -> 3
    [] key = "7" -> 7
    [] OTHER -> -1

RECURSIVE SortByIndex(_)
SortByIndex(entries) ==
  IF entries = <<>> THEN <<>>
  ELSE LET least == CHOOSE i \in 1..Len(entries) :
                      \A j \in 1..Len(entries) :
                        ArrayIndex(entries[i].key) <= ArrayIndex(entries[j].key)
           rest == [k \in 1..(Len(entries) - 1) |->
                      IF k < least THEN entries[k] ELSE entries[k + 1]]
       IN <<entries[least]>> \o SortByIndex(rest)

ObjectEntriesAsDeclared(declared) == declared

\* Object.entries(config.rules): own keys in property order, which is the integer-like
\* keys in ascending numeric order, then the other keys in the order they were added
ObjectEntries(declared) ==
  SortByIndex(SelectSeq(declared, LAMBDA e : ArrayIndex(e.key) >= 0))
    \o SelectSeq(declared, LAMBDA e : ArrayIndex(e.key) < 0)

EffectiveThresholdOr(rule) ==
  IF rule.threshold = None \/ rule.threshold[1] = 0
  THEN getDefaultThreshold ELSE rule.threshold[1]

\* rule.threshold ?? getDefaultThreshold()
EffectiveThreshold(rule) ==
  IF rule.threshold = None THEN getDefaultThreshold ELSE rule.threshold[1]

\* The template literal of a file's before-content block (path, fence, beforeContent,
\* fence), or null when beforeContent is falsy. TICK and FENCE stand for the
\* program's backquote and triple backquote.
BeforeSection(file) ==
  IF file.beforeContent # None /\ file.beforeContent[1] # ""
  THEN Some(<<"File: TICK", file.path, "TICK\nFENCE\n", file.beforeContent[1], "\nFENCE">>)
  ELSE None

BuildPrompt(intent, files) ==
  LET mapped == [i \in 1..Len(files) |-> BeforeSection(files[i])]
      kept == SelectSeq(mapped, LAMBDA o : o # None)
      sections == [i \in 1..Len(kept) |-> kept[i][1]]
      promptSegments ==
        IF Len(sections) > 0
        THEN <<<<intent.content>>, Join(sections, SECTION_DELIMITER)>>
        ELSE <<<<intent.content>>>>
  IN Join(promptSegments, SECTION_DELIMITER)

BuildResponse(files) ==
  LET diffs == SelectSeq([i \in 1..Len(files) |-> files[i].diff], LAMBDA d : d # "")
  IN Join([i \in 1..Len(diffs) |-> <<diffs[i]>>], SECTION_DELIMITER)

\* The payload handed to client.createEvaluation
BuildRequest(config, rule, files, threshold) ==
  [metricId |-> rule.metricId,
   prompt |-> BuildPrompt(intentSource, files),
   response |-> BuildResponse(files),
   properties |->
     [threshold |-> threshold,
      config |-> config.name,
      base_ref |-> gitDiff.base,
      head_ref |-> gitDiff.head,
      file_count |-> Len(files),
      file_paths |-> [i \in 1..Len(files) |-> files[i].path],
      intent_source |-> intentSource.source]]

\* const success = evaluation.score >= threshold
IsSuccess(score, threshold) == AtLeast(score, threshold)

BuildResultDefaultThreshold(config, ruleId, evaluation, threshold) ==
  [evaluation |-> evaluation,
   success |-> IsSuccess(evaluation.score, getDefaultThreshold),
   ruleId |-> ruleId,
   configName |-> config.name,
   score |-> evaluation.score,
   threshold |-> threshold]

BuildResult(config, ruleId, evaluation, threshold) ==
  [evaluation |-> evaluation,
   success |-> IsSuccess(evaluation.score, threshold),
   ruleId |-> ruleId,
   configName |-> config.name,
   score |-> evaluation.score,
   threshold |-> threshold]

NeverSkip(files) == FALSE

\* if (filteredFiles.length === 0) continue
SkipsConfig(files) == Len(files) = 0

ScorerErrorSwallowed == FALSE

\* createEvaluation is awaited outside any try block: its rejection leaves the function
ScorerErrorPropagates == TRUE

\* The resolver when it is not the subject
RefIdle ==
  /\ gitContext = [env |-> <<>>, options |-> <<>>]
  /\ repo = [resolves |-> {}, headParents |-> None]
  /\ refPc = "idle" /\ refEntry = "none" /\ contextType = "none"
  /\ selection = None /\ refResult = None /\ refError = None
  /\ firstOutcome = None

\* The intent extractor when it is not the subject
IntentIdle ==
  /\ intentArgs = [base |-> "", head |-> "", manualIntent |-> None]
  /\ intentWorld = [env |-> <<>>, event |-> <<>>, git |-> <<>>]
  /\ intentPc = "idle" /\ intentLog = <<>>
  /\ intentOut = None /\ intentErr = None

\* The diff analyzer when it is not the subject
DiffIdle ==
  /\ diffArgs = [base |-> "", head |-> ""]
  /\ diffWorld = [checkIsRepo |-> TRUE, summary |-> None, nameStatus |-> None]
  /\ diffPc = "idle" /\ diffIndex = 0 /\ diffFiles = <<>> /\ diffLog = <<>>
  /\ diffAnswers = <<>>
  /\ diffOut = None /\ diffErr = None

\* The prompt formatter when it is not the subject
FormatIdle ==
  /\ fmtArgs = [intent |-> "", files |-> <<>>]
  /\ fmtPc = "idle" /\ fmtOut = None

\* The setup validation when it is not the subject
SetupIdle ==
  /\ setupWorld = [isGitRepo |-> TRUE, api |-> None, discovery |-> None]
  /\ setupPc = "idle" /\ setupLog = <<>>
  /\ setupErrors = <<>> /\ setupWarnings = <<>> /\ setupOut = None

UnitsIdle == IntentIdle /\ DiffIdle /\ FormatIdle /\ SetupIdle

\* The pipeline when it is not the subject
PipeIdle ==
  /\ options = [base |-> "", head |-> "", intent |-> None]
  /\ pipeWorld = [resolvable |-> {}, emptyDiff |-> FALSE]
  /\ pipePc = "idle" /\ stages = <<>> /\ loaded = <<>> /\ warned = None
  /\ prepared = [intentSource |-> None, gitDiff |-> None]
  /\ pipeReturned = None /\ pipeError = None

ExecStart ==
  /\ pc = "config" /\ ci = 1
  /\ filteredFiles = <<>> /\ pending = <<>> /\ results = <<>>
  /\ returned = None /\ error = None /\ calls = <<>> /\ trail = <<>>

ExecInit ==
  /\ RefIdle /\ PipeIdle /\ UnitsIdle
  /\ configs \in ConfigLists
  /\ gitDiff \in {[base |-> "main", head |-> "feature", files |-> fs] : fs \in DiffFileLists}
  /\ intentSource = [source |-> "manual", content |-> "Implement feature"]
  /\ workTree \in WorkTrees
  /\ ExecStart

\* for (const config of configs): route, and skip a config nothing is routed to
SkipConfig ==
  /\ pc = "config" /\ ci <= Len(configs)
  /\ LET routed == filterFilesForConfig(gitDiff.files, configs[ci], workTree)
     IN /\ SkipsConfig(routed)
        /\ filteredFiles' = routed
  /\ ci' = ci + 1
  /\ UNCHANGED <<configs, gitDiff, intentSource, workTree, pc, pending, results,
                 returned, error, calls, trail>>
  /\ UNCHANGED <<refVars, pipeVars, unitVars>>

\* ... or enter its rule loop
EnterConfig ==
  /\ pc = "config" /\ ci <= Len(configs)
  /\ LET routed == filterFilesForConfig(gitDiff.files, configs[ci], workTree)
         entries == ObjectEntries(configs[ci].rules)
     IN /\ ~SkipsConfig(routed)
        /\ filteredFiles' = routed
        /\ pending' = entries
        /\ IF entries = <<>>
           THEN pc' = "config" /\ ci' = ci + 1
           ELSE pc' = "rules" /\ ci' = ci
  /\ UNCHANGED <<configs, gitDiff, intentSource, workTree, results, returned, error,
                 calls, trail>>
  /\ UNCHANGED <<refVars, pipeVars, unitVars>>

\* Leaving the body of the rule loop: next rule, or next config
NextRule ==
  /\ pending' = Tail(pending)
  /\ IF Tail(pending) = <<>>
     THEN pc' = "config" /\ ci' = ci + 1
     ELSE pc' = "rules" /\ ci' = ci

\* One iteration of the rule loop in which the scorer answers with a score
EvaluateRule ==
  /\ pc = "rules"
  /\ \E score \in Scores :
       LET config == configs[ci]
           entry == Head(pending)
           threshold == EffectiveThreshold(entry.rule)
           request == BuildRequest(config, entry.rule, filteredFiles, threshold)
           evaluation == [score |-> score, properties |-> request.properties]
       IN /\ calls' = Append(calls, request)
          /\ trail' = Append(trail, [config |-> ci, ruleId |-> entry.key,
                                     outcome |-> "scored"])
          /\ results' = Append(results,
                               BuildResult(config, entry.key, evaluation, threshold))
  /\ NextRule
  /\ UNCHANGED <<configs, gitDiff, intentSource, workTree, filteredFiles, returned, error>>
  /\ UNCHANGED <<refVars, pipeVars, unitVars>>

\* One iteration of the rule loop in which the scorer call fails
ScorerThrows ==
  /\ pc = "rules"
  /\ LET config == configs[ci]
         entry == Head(pending)
         threshold == EffectiveThreshold(entry.rule)
         request == BuildRequest(config, entry.rule, filteredFiles, threshold)
     IN /\ calls' = Append(calls, request)
        /\ trail' = Append(trail, [config |-> ci, ruleId |-> entry.key,
                                   outcome |-> "threw"])
  /\ IF ScorerErrorPropagates
     THEN /\ pc' = "threw"
          /\ error' = Some("scorer error")
          /\ UNCHANGED <<ci, pending>>
     ELSE /\ NextRule
          /\ UNCHANGED error
  /\ UNCHANGED <<configs, gitDiff, intentSource, workTree, filteredFiles, results, returned>>
  /\ UNCHANGED <<refVars, pipeVars, unitVars>>

\* After the last config: return results
ExecReturn ==
  /\ pc = "config" /\ ci > Len(configs)
  /\ pc' = "returned"
  /\ returned' = Some(results)
  /\ UNCHANGED <<configs, gitDiff, intentSource, workTree, ci, filteredFiles, pending,
                 results, error, calls, trail>>
  /\ UNCHANGED <<refVars, pipeVars, unitVars>>

ExecNext == SkipConfig \/ EnterConfig \/ EvaluateRule \/ ScorerThrows \/ ExecReturn

SpecExec == ExecInit /\ [][ExecNext]_vars


(***************************************************************************)
(* Vocabulary of the executor's properties                                 *)
(***************************************************************************)
\* The rule a scorer call was made for
RuleOfCall(t) ==
  LET declared == configs[t.config].rules
  IN declared[CHOOSE k \in 1..Len(declared) : declared[k].key = t.ruleId].rule

\* Where a key stands among the declared keys of config c
DeclaredPosition(c, key) ==
  CHOOSE k \in 1..Len(configs[c].rules) : configs[c].rules[k].key = key

RoutedFiles(c) == filterFilesForConfig(gitDiff.files, configs[c], workTree)

\* The (config, rule) pairs whose config has at least one routed file
EligiblePairs ==
  UNION {{<<c, configs[c].rules[k].key>> : k \in 1..Len(configs[c].rules)} :
           c \in {d \in 1..Len(configs) : RoutedFiles(d) # <<>>}}

ScoredCalls == {i \in 1..Len(trail) : trail[i].outcome = "scored"}
FailedCalls == {i \in 1..Len(trail) : trail[i].outcome = "threw"}

StatedObjective(rule) ==
  IF rule.scoreObjective # None THEN rule.scoreObjective[1] ELSE "maximize"

StatedThreshold(rule) ==
  IF rule.threshold # None THEN rule.threshold[1] ELSE DEFAULT_THRESHOLD

(***************************************************************************)
(* Claims about executeEvaluations, checked under SpecExec                 *)
(***************************************************************************)

\* C1: every EvalResult has success = TRUE exactly when the effective objective is
\* maximize and score >= threshold, or it is minimize and score <= threshold.
C1_SuccessFollowsObjective ==
  \A i \in 1..Len(results) :
    LET rule == RuleOfCall(trail[i])
        s == results[i].evaluation.score
        t == StatedThreshold(rule)
    IN results[i].success <=>
         \/ StatedObjective(rule) = "maximize" /\ s >= t
         \/ StatedObjective(rule) = "minimize" /\ s <= t

\* C2: the effective objective (the rule's scoreObjective, else maximize) is sent to
\* the scorer in the request properties together with the effective threshold, and
\* is recorded as scoreObjective on the EvalResult.
C2_ObjectiveSentAndRecorded ==
  \A i \in 1..Len(results) :
    LET rule == RuleOfCall(trail[i])
    IN /\ calls[i].properties.threshold = StatedThreshold(rule)
       /\ "scoreObjective" \in DOMAIN calls[i].properties
       /\ calls[i].properties.scoreObjective = StatedObjective(rule)
       /\ "scoreObjective" \in DOMAIN results[i]
       /\ results[i].scoreObjective = StatedObjective(rule)

\* C3: the threshold a rule is evaluated with (sent to the scorer, recorded on the
\* result) is the rule's own threshold whenever it has one, 0 included, and
\* DEFAULT_THRESHOLD only when it has none.
C3_EffectiveThreshold ==
  \A i \in 1..Len(calls) :
    LET rule == RuleOfCall(trail[i])
        expected == IF rule.threshold = None THEN DEFAULT_THRESHOLD
                    ELSE rule.threshold[1]
    IN /\ calls[i].properties.threshold = expected
       /\ i <= Len(results) => results[i].threshold = expected

\* C3 witness: one run evaluated a rule with the explicit threshold 0 and a rule
\* with no threshold.
C3_Witness ==
  \E i, j \in 1..Len(results) :
    /\ RuleOfCall(trail[i]).threshold = Some(0) /\ results[i].threshold = 0
    /\ RuleOfCall(trail[j]).threshold = None
    /\ results[j].threshold = DEFAULT_THRESHOLD

\* C4: a config whose routed file set is empty gets no scorer call and no
\* EvalResult, whatever its rules and whatever the other configs.
C4_EmptyRoutingSkips ==
  /\ Len(calls) = Len(trail)
  /\ Len(results) = Cardinality(ScoredCalls)
  /\ \A c \in 1..Len(configs) :
       RoutedFiles(c) = <<>> => \A i \in 1..Len(trail) : trail[i].config # c

\* C4 witness: a finished run with a config that declares rules but routes no
\* file, after which a later config produced results.
C4_Witness ==
  /\ pc = "returned"
  /\ \E c \in 1..Len(configs) :
       /\ RoutedFiles(c) = <<>> /\ configs[c].rules # <<>>
       /\ \E i \in 1..Len(trail) : trail[i].config > c

\* The calls and results of a finished run are those of the eligible pairs, once each
OnePerEligiblePair ==
  /\ Len(calls) = Len(trail) /\ Len(results) = Len(trail)
  /\ {<<trail[i].config, trail[i].ruleId>> : i \in 1..Len(trail)} = EligiblePairs
  /\ Len(trail) = Cardinality(EligiblePairs)
  /\ \A i \in 1..Len(trail) :
       /\ results[i].ruleId = trail[i].ruleId
       /\ results[i].configName = configs[trail[i].config].name
       /\ calls[i].properties.config = configs[trail[i].config].name
       /\ calls[i].metricId = RuleOfCall(trail[i]).metricId

\* Property order of two keys of one object: integer-like keys ascending, then the
\* other keys as declared
InPropertyOrder(c, k1, k2) ==
  IF ArrayIndex(k1) >= 0 /\ ArrayIndex(k2) >= 0 THEN ArrayIndex(k1) < ArrayIndex(k2)
  ELSE IF ArrayIndex(k1) >= 0 THEN TRUE
  ELSE IF ArrayIndex(k2) >= 0 THEN FALSE
  ELSE DeclaredPosition(c, k1) < DeclaredPosition(c, k2)

\* C5 as stated: when no scorer call fails there is exactly one call and one result
\* per (config, rule) pair whose config has a routed file and none for any other
\* pair, in the order of the configs and, within a config, in the order the rule
\* keys were declared.
C5_DeclaredOrder ==
  pc = "returned" =>
    /\ OnePerEligiblePair
    /\ \A i, j \in 1..Len(trail) :
         i < j =>
           \/ trail[i].config < trail[j].config
           \/ /\ trail[i].config = trail[j].config
              /\ DeclaredPosition(trail[i].config, trail[i].ruleId)
                   < DeclaredPosition(trail[j].config, trail[j].ruleId)

\* C5 amended: ... within a config, the rule keys that are integer-like come first
\* in ascending numeric order, followed by the other keys in the order they were
\* declared.
C5_PropertyOrder ==
  pc = "returned" =>
    /\ OnePerEligiblePair
    /\ \A i, j \in 1..Len(trail) :
         i < j =>
           \/ trail[i].config < trail[j].config
           \/ /\ trail[i].config = trail[j].config
              /\ InPropertyOrder(trail[i].config, trail[i].ruleId, trail[j].ruleId)

\* C5 witness: a finished run over two configs that produced results, one of which
\* declares an integer-like key after a larger one.
C5_Witness ==
  /\ pc = "returned" /\ returned = Some(results)
  /\ \E i, j \in 1..Len(trail) :
       /\ i < j /\ trail[i].config = trail[j].config
       /\ DeclaredPosition(trail[i].config, trail[i].ruleId)
            > DeclaredPosition(trail[j].config, trail[j].ruleId)
  /\ \E i, j \in 1..Len(trail) :
       /\ trail[i].config < trail[j].config
       /\ ArrayIndex(trail[j].ruleId) < 0

\* C6: once a scorer call has failed, the failure has left executeEvaluations: the
\* failed call is the last call made (nothing follows it, it is made once) and no
\* result list is returned, whatever results were computed before.
C6_ScorerFailurePropagates ==
  FailedCalls # {} =>
    /\ returned = None /\ error # None
    /\ FailedCalls = {Len(trail)}
    /\ Len(calls) = Len(trail)
    /\ \A i, j \in 1..Len(trail) :
         i # j => <<trail[i].config, trail[i].ruleId>> # <<trail[j].config, trail[j].ruleId>>

\* C6 witness: the scorer failed after a result had been computed and with a config
\* still to go that has routed files and rules.
C6_Witness ==
  /\ pc = "threw" /\ Len(results) > 0
  /\ ci < Len(configs)
  /\ RoutedFiles(ci + 1) # <<>> /\ configs[ci + 1].rules # <<>>


\* The expansions of a config's inclusion and exclusion patterns
InclusionSet(config) == globby(config.files, workTree)
ExclusionSet(config) ==
  IF config.ignores = None THEN {} ELSE globby(config.ignores[1], workTree)

\* Where a path stands in the diff
DiffPosition(path) ==
  CHOOSE k \in 1..Len(gitDiff.files) : gitDiff.files[k].path = path

RoutedAsStated(routed, config) ==
  /\ \A k \in 1..Len(gitDiff.files) :
       LET file == gitDiff.files[k]
       IN (\E r \in 1..Len(routed) : routed[r] = file)
            <=> (file.path \in InclusionSet(config) /\ file.path \notin ExclusionSet(config))
  /\ \A r \in 1..Len(routed) : \E k \in 1..Len(gitDiff.files) : routed[r] = gitDiff.files[k]
  /\ \A a, b \in 1..Len(routed) :
       a < b => DiffPosition(routed[a].path) < DiffPosition(routed[b].path)
  /\ Len(config.files) = 0 => routed = <<>>

\* C12: filterFilesForConfig keeps a changed file if and only if its path is in the
\* expanded inclusion set and not in the expanded exclusion set (so a file in both is
\* dropped, a file outside the inclusion set is dropped whatever the exclusion set,
\* and an empty inclusion pattern list keeps nothing), and the kept files stand in
\* the order they have in the diff.
C12_RoutingIsInclusionMinusExclusion ==
  [][(pc = "config" /\ ci <= Len(configs)) => RoutedAsStated(filteredFiles', configs[ci])]_vars

\* C12 witness: of two changed files matching the inclusion patterns, the one that
\* also matches the exclusion patterns was dropped and the other kept.
C12_Witness ==
  /\ pc = "rules"
  /\ Len(filteredFiles) = 1 /\ Len(gitDiff.files) = 2
  /\ \A k \in 1..2 : gitDiff.files[k].path \in InclusionSet(configs[ci])
  /\ \E k \in 1..2 : gitDiff.files[k].path \in ExclusionSet(configs[ci])

(***************************************************************************)
(* Reference Resolver (git.ts)                                             *)
(***************************************************************************)
DEFAULT_BASE_BRANCH == "main"
DEFAULT_HEAD_BRANCH == "HEAD"
EMPTY_TREE_HASH == "4b825dc642cb6eb9a060e54bf8d69288fbee4904"

\* Largest number of parents of the HEAD commit
MaxParents == 2

\* JavaScript truthiness of an optional string: present and not empty
Truthy(o) == o # None /\ o[1] # ""

\* The template literal `origin/${name}`
RemoteTracking(name) ==
  CASE name = "main" -> "origin/main"
    [] name = "" -> "origin/"
    [] OTHER -> "origin/?"

\* `${strategy}-fallback`
FallbackOf(strategy) ==
  CASE strategy = "merge-commit" -> "merge-commit-fallback"
    [] strategy = "regular-commit" -> "regular-commit-fallback"
    [] strategy = "manual" -> "manual-fallback"
    [] strategy = "github-pr-base-ref" -> "github-pr-base-ref-fallback"
    [] strategy = "github-pr-base-sha" -> "github-pr-base-sha-fallback"
    [] OTHER -> "?-fallback"

\* Environment snapshots: a variable is unset, set to the empty string, or set
Environments ==
  [GITHUB_BASE_REF : {None, Some(""), Some("main")},
   GITHUB_EVENT_PULL_REQUEST_BASE_SHA : {None, Some(""), Some("abc123")},
   GITHUB_ACTIONS : {None, Some("true")},
   GITHUB_REF : {None, Some("refs/heads/main"), Some("refs/heads/dev")}]

\* The --base and --head overrides
Overrides == [base : {None, Some(""), Some("develop")}, head : {None, Some("feature")}]

GitContexts == [env : Environments, options : Overrides]

Revisions == {"origin/main", "abc123", "HEAD^1", "HEAD~1", "main", "develop"}

\* Repositories: every revision resolves, all but one do, or none does; the HEAD
\* commit has 0..MaxParents parents, or its parents cannot be listed
Repositories ==
  [resolves : {Revisions, {}} \cup {Revisions \ {r} : r \in Revisions},
   headParents : {None} \cup {Some(n) : n \in 0..MaxParents}]

\* The caller-supplied context types of a direct selectReferences call
CallerContextTypes == {"github-pr", "github-main", "manual", "gitlab-mr"}

Selected(sel) == [selection |-> Some(sel), error |-> None]
Thrown(err) == [selection |-> None, error |-> Some(err)]

detectMainFirst(context) ==
  IF Truthy(context.env.GITHUB_ACTIONS)
     /\ context.env.GITHUB_REF = Some("refs/heads/main")
  THEN "github-main"
  ELSE IF Truthy(context.env.GITHUB_BASE_REF)
          \/ Truthy(context.env.GITHUB_EVENT_PULL_REQUEST_BASE_SHA)
  THEN "github-pr"
  ELSE "manual"

detectExecutionContext(context) ==
  IF Truthy(context.env.GITHUB_BASE_REF)
     \/ Truthy(context.env.GITHUB_EVENT_PULL_REQUEST_BASE_SHA)
  THEN "github-pr"
  ELSE IF Truthy(context.env.GITHUB_ACTIONS)
          /\ context.env.GITHUB_REF = Some("refs/heads/main")
  THEN "github-main"
  ELSE "manual"

selectGitHubPRRefsShaFirst(context) ==
  IF Truthy(context.env.GITHUB_EVENT_PULL_REQUEST_BASE_SHA)
  THEN Selected([base |-> context.env.GITHUB_EVENT_PULL_REQUEST_BASE_SHA[1],
                 head |-> "HEAD", strategy |-> "github-pr-base-sha"])
  ELSE IF Truthy(context.env.GITHUB_BASE_REF)
  THEN Selected([base |-> RemoteTracking(context.env.GITHUB_BASE_REF[1]),
                 head |-> "HEAD", strategy |-> "github-pr-base-ref"])
  ELSE Thrown([message |-> "GitHub PR context detected but no base reference found"])

selectGitHubPRRefs(context) ==
  IF Truthy(context.env.GITHUB_BASE_REF)
  THEN Selected([base |-> RemoteTracking(context.env.GITHUB_BASE_REF[1]),
                 head |-> "HEAD", strategy |-> "github-pr-base-ref"])
  ELSE IF Truthy(context.env.GITHUB_EVENT_PULL_REQUEST_BASE_SHA)
  THEN Selected([base |-> context.env.GITHUB_EVENT_PULL_REQUEST_BASE_SHA[1],
                 head |-> "HEAD", strategy |-> "github-pr-base-sha"])
  ELSE Thrown([message |-> "GitHub PR context detected but no base reference found"])

\* git rev-list --parents -n 1 HEAD: the commit hash followed by its parents' hashes
RevListOutput(n) == [i \in 1..(n + 1) |-> IF i = 1 THEN "head" ELSE "parent"]

isHeadMergeCommitAnyParent(repository) ==
  IF repository.headParents = None THEN FALSE
  ELSE Len(RevListOutput(repository.headParents[1])) - 1 >= 1

\* output.trim().split(' ').length - 1 >= 2, false when the command fails
isHeadMergeCommitCached(repository) ==
  firstOutcome # None /\ firstOutcome[1].result # None

isHeadMergeCommit(repository) ==
  IF repository.headParents = None THEN FALSE
  ELSE Len(RevListOutput(repository.headParents[1])) - 1 >= 2

selectMainBranchRefsHeadOverride(context, repository) ==
  LET head == IF Truthy(context.options.head) THEN context.options.head[1] ELSE "HEAD"
  IN IF isHeadMergeCommit(repository)
     THEN Selected([base |-> "HEAD^1", head |-> head, strategy |-> "merge-commit"])
     ELSE Selected([base |-> "HEAD~1", head |-> head, strategy |-> "regular-commit"])

selectMainBranchRefs(context, repository) ==
  IF isHeadMergeCommit(repository)
  THEN Selected([base |-> "HEAD^1", head |-> "HEAD", strategy |-> "merge-commit"])
  ELSE Selected([base |-> "HEAD~1", head |-> "HEAD", strategy |-> "regular-commit"])

selectManualRefs(context) ==
  Selected([base |-> IF Truthy(context.options.base) THEN context.options.base[1]
                     ELSE DEFAULT_BASE_BRANCH,
            head |-> IF Truthy(context.options.head) THEN context.options.head[1]
                     ELSE DEFAULT_HEAD_BRANCH,
            strategy |-> "manual"])

selectReferences(type, context, repository) ==
  CASE type = "github-pr" -> selectGitHubPRRefs(context)
    [] type = "github-main" -> selectMainBranchRefs(context, repository)
    [] type = "manual" -> selectManualRefs(context)
    [] OTHER -> Thrown([message |-> "Unknown context type", type |-> type])

validateReferencesAlwaysFallback(sel, repository) ==
  IF sel.base \in repository.resolves THEN Selected(sel)
  ELSE Selected([sel EXCEPT !.base = EMPTY_TREE_HASH, !.strategy = FallbackOf(sel.strategy)])

\* git rev-parse --verify selection.base succeeds exactly for a revision that resolves
validateReferences(sel, repository) ==
  IF sel.base \in repository.resolves THEN Selected(sel)
  ELSE IF sel.strategy = "merge-commit" \/ sel.strategy = "regular-commit"
  THEN Selected([sel EXCEPT !.base = EMPTY_TREE_HASH, !.strategy = FallbackOf(sel.strategy)])
  ELSE Thrown([message |-> "Base reference does not exist", ref |-> sel.base])

\* resolveGitReferences as a function of the context and the repository
resolveGitReferences(context, repository) ==
  LET type == detectExecutionContext(context)
      sel == selectReferences(type, context, repository)
  IN IF sel.error # None THEN sel
     ELSE validateReferences(sel.selection[1], repository)

\* The executor when it is not the subject
ExecIdle ==
  /\ configs = <<>>
  /\ gitDiff = [base |-> "", head |-> "", files |-> <<>>]
  /\ intentSource = [source |-> "none", content |-> ""]
  /\ workTree = {}
  /\ pc = "idle" /\ ci = 0
  /\ filteredFiles = <<>> /\ pending = <<>> /\ results = <<>>
  /\ returned = None /\ error = None /\ calls = <<>> /\ trail = <<>>

\* resolveGitReferences(context), or selectReferences(contextType, context) called
\* on its own with a context type of the caller's choosing
RefInit ==
  /\ ExecIdle /\ PipeIdle /\ UnitsIdle
  /\ gitContext \in GitContexts
  /\ repo \in Repositories
  /\ refEntry \in {"resolveGitReferences", "selectReferences"}
  /\ IF refEntry = "resolveGitReferences"
     THEN refPc = "detect" /\ contextType = "none"
     ELSE refPc = "select" /\ contextType \in CallerContextTypes
  /\ selection = None /\ refResult = None /\ refError = None
  /\ firstOutcome = None

\* const contextType = detectExecutionContext(context)
Detect ==
  /\ refPc = "detect"
  /\ contextType' = detectExecutionContext(gitContext)
  /\ refPc' = "select"
  /\ UNCHANGED <<gitContext, repo, refEntry, selection, refResult, refError, firstOutcome>>
  /\ UNCHANGED <<execVars, pipeVars, unitVars>>

\* const selection = await selectReferences(contextType, context)
SelectOk ==
  /\ refPc = "select"
  /\ LET r == selectReferences(contextType, gitContext, repo)
     IN /\ r.error = None
        /\ selection' = r.selection
        /\ IF refEntry = "selectReferences"
           THEN refPc' = "done" /\ refResult' = r.selection
           ELSE refPc' = "validate" /\ refResult' = refResult
  /\ UNCHANGED <<gitContext, repo, refEntry, contextType, refError, firstOutcome>>
  /\ UNCHANGED <<execVars, pipeVars, unitVars>>

SelectThrows ==
  /\ refPc = "select"
  /\ LET r == selectReferences(contextType, gitContext, repo)
     IN /\ r.error # None
        /\ refError' = r.error
  /\ refPc' = "threw"
  /\ UNCHANGED <<gitContext, repo, refEntry, contextType, selection, refResult, firstOutcome>>
  /\ UNCHANGED <<execVars, pipeVars, unitVars>>

\* return await validateReferences(selection, context.workingDir)
ValidateOk ==
  /\ refPc = "validate"
  /\ LET r == validateReferences(selection[1], repo)
     IN /\ r.error = None
        /\ refResult' = r.selection
  /\ refPc' = "done"
  /\ UNCHANGED <<gitContext, repo, refEntry, contextType, selection, refError, firstOutcome>>
  /\ UNCHANGED <<execVars, pipeVars, unitVars>>

ValidateThrows ==
  /\ refPc = "validate"
  /\ LET r == validateReferences(selection[1], repo)
     IN /\ r.error # None
        /\ refError' = r.error
  /\ refPc' = "threw"
  /\ UNCHANGED <<gitContext, repo, refEntry, contextType, selection, refResult, firstOutcome>>
  /\ UNCHANGED <<execVars, pipeVars, unitVars>>

\* resolveGitReferences(context) called once more, on the same context and with the
\* repository as it was
ResolveAgain ==
  /\ refEntry = "resolveGitReferences"
  /\ refPc \in {"done", "threw"}
  /\ firstOutcome = None
  /\ firstOutcome' = Some([result |-> refResult, error |-> refError])
  /\ refPc' = "detect" /\ contextType' = "none"
  /\ selection' = None /\ refResult' = None /\ refError' = None
  /\ UNCHANGED <<gitContext, repo, refEntry>>
  /\ UNCHANGED <<execVars, pipeVars, unitVars>>

RefNext ==
  \/ Detect \/ SelectOk \/ SelectThrows \/ ValidateOk \/ ValidateThrows
  \/ ResolveAgain

SpecRef == RefInit /\ [][RefNext]_vars


(***************************************************************************)
(* Claims about the reference resolver, checked under SpecRef.             *)
(* An environment variable or an override is "set" when it has a non-empty *)
(* value: the empty string is unset to the program, as it is to a shell's  *)
(* ${VAR:+x}.  The environments of SpecRef include the empty values.       *)
(***************************************************************************)
IsSet(o) == o # None /\ o # Some("")

Resolving == refEntry = "resolveGitReferences"

\* C8: detectExecutionContext returns github-pr whenever a PR-base indicator
\* (GITHUB_BASE_REF or GITHUB_EVENT_PULL_REQUEST_BASE_SHA) is set, even with the
\* main-branch push indicators set; otherwise github-main when GITHUB_ACTIONS is set
\* and the ref is refs/heads/main; otherwise manual, whose selection is the explicit
\* overrides, or base "main" and head "HEAD" where there is none.
C8_ContextPriority ==
  (Resolving /\ refPc # "detect") =>
    LET env == gitContext.env
        opts == gitContext.options
    IN /\ (IsSet(env.GITHUB_BASE_REF) \/ IsSet(env.GITHUB_EVENT_PULL_REQUEST_BASE_SHA))
            => contextType = "github-pr"
       /\ (/\ ~IsSet(env.GITHUB_BASE_REF)
           /\ ~IsSet(env.GITHUB_EVENT_PULL_REQUEST_BASE_SHA)
           /\ IsSet(env.GITHUB_ACTIONS) /\ env.GITHUB_REF = Some("refs/heads/main"))
            => contextType = "github-main"
       /\ (/\ ~IsSet(env.GITHUB_BASE_REF)
           /\ ~IsSet(env.GITHUB_EVENT_PULL_REQUEST_BASE_SHA)
           /\ ~(IsSet(env.GITHUB_ACTIONS) /\ env.GITHUB_REF = Some("refs/heads/main")))
            => /\ contextType = "manual"
               /\ refPc # "select" =>
                    selection = Some([base |-> IF IsSet(opts.base) THEN opts.base[1]
                                               ELSE "main",
                                      head |-> IF IsSet(opts.head) THEN opts.head[1]
                                               ELSE "HEAD",
                                      strategy |-> "manual"])

\* C8 witness: a pull-request base indicator and the main-branch push indicators
\* are all set, and the context was classified and its references selected.
C8_Witness ==
  /\ Resolving /\ refPc = "validate"
  /\ gitContext.env.GITHUB_BASE_REF = Some("main")
  /\ gitContext.env.GITHUB_ACTIONS = Some("true")
  /\ gitContext.env.GITHUB_REF = Some("refs/heads/main")
  /\ contextType = "github-pr"

\* C9: in the pull-request strategy the base is origin/<base-ref> when the base-ref
\* variable is set (the base-SHA variable set or not), else the base-SHA value when
\* that is set, else the selection fails with an error; and a pull-request selection
\* comes out of the resolution unchanged or not at all, never with a default or
\* empty-tree base.
C9_PullRequestBase ==
  (contextType = "github-pr" /\ refPc \in {"validate", "done", "threw"}) =>
    LET env == gitContext.env
    IN /\ IsSet(env.GITHUB_BASE_REF) =>
            selection = Some([base |-> RemoteTracking(env.GITHUB_BASE_REF[1]),
                              head |-> "HEAD", strategy |-> "github-pr-base-ref"])
       /\ (~IsSet(env.GITHUB_BASE_REF) /\ IsSet(env.GITHUB_EVENT_PULL_REQUEST_BASE_SHA)) =>
            selection = Some([base |-> env.GITHUB_EVENT_PULL_REQUEST_BASE_SHA[1],
                              head |-> "HEAD", strategy |-> "github-pr-base-sha"])
       /\ (~IsSet(env.GITHUB_BASE_REF) /\ ~IsSet(env.GITHUB_EVENT_PULL_REQUEST_BASE_SHA)) =>
            /\ selection = None /\ refResult = None /\ refPc = "threw"
            /\ refError =
                 Some([message |-> "GitHub PR context detected but no base reference found"])
       /\ refPc = "done" =>
            /\ refResult = selection
            /\ refResult[1].base \notin {EMPTY_TREE_HASH, DEFAULT_BASE_BRANCH}
       /\ (refPc = "threw" /\ selection # None) =>
            /\ refResult = None
            /\ refError = Some([message |-> "Base reference does not exist",
                                ref |-> selection[1].base])

\* C9 witness: the pull-request strategy was applied with neither variable set and
\* failed.
C9_Witness ==
  /\ contextType = "github-pr" /\ refPc = "threw"
  /\ ~IsSet(gitContext.env.GITHUB_BASE_REF)
  /\ ~IsSet(gitContext.env.GITHUB_EVENT_PULL_REQUEST_BASE_SHA)

\* The resolution ran validateReferences to its end
Validated == Resolving /\ (refPc = "done" \/ (refPc = "threw" /\ selection # None))

\* C10: validateReferences returns a selection whose base resolves unchanged; for
\* an unresolvable base it returns the empty-tree hash as base, the same head and
\* strategy '<strategy>-fallback' exactly when the strategy is merge-commit or
\* regular-commit, and for every other strategy raises an error naming the base.
C10_FallbackOnlyForMainBranch ==
  Validated =>
    LET sel == selection[1]
    IN /\ sel.base \in repo.resolves => (refResult = Some(sel) /\ refError = None)
       /\ (sel.base \notin repo.resolves /\ sel.strategy = "merge-commit") =>
            /\ refResult = Some([base |-> EMPTY_TREE_HASH, head |-> sel.head,
                                 strategy |-> "merge-commit-fallback"])
            /\ refError = None
       /\ (sel.base \notin repo.resolves /\ sel.strategy = "regular-commit") =>
            /\ refResult = Some([base |-> EMPTY_TREE_HASH, head |-> sel.head,
                                 strategy |-> "regular-commit-fallback"])
            /\ refError = None
       /\ (sel.base \notin repo.resolves
           /\ sel.strategy \notin {"merge-commit", "regular-commit"}) =>
            /\ sel.strategy \in {"manual", "github-pr-base-ref", "github-pr-base-sha"}
            /\ refResult = None
            /\ refError = Some([message |-> "Base reference does not exist",
                                ref |-> sel.base])

\* C10 witness: a manual selection whose base does not resolve was refused.
C10_Witness ==
  /\ Validated /\ refPc = "threw"
  /\ selection[1].strategy = "manual"
  /\ selection[1].base \notin repo.resolves


UuidVersionZero == "66666666-6666-0666-8666-666666666666"

\* isValidUUID: the strings of the universe that match
\* /^[0-9a-f]{8}-[0-9a-f]{4}-[1-5][0-9a-f]{3}-[89ab][0-9a-f]{3}-[0-9a-f]{12}$/i
isValidUUID(uuid) ==
  uuid \in {UuidQuality, UuidRegression, UuidIndex7, UuidIndex3, UuidStyle}

CfgUnnamed ==
  [name |-> "", files |-> <<"docs/**">>, ignores |-> None,
   rules |-> << Decl("quality", Rule(UuidVersionZero, Some(-1000), None)) >>]

CfgBadRules ==
  [name |-> "bad", files |-> <<"**/*">>, ignores |-> None,
   rules |-> << Decl("quality", Rule("", Some(-1500), None)),
                Decl("style", Rule("not-a-uuid", Some(1000), None)),
                Decl("regression", Rule(UuidRegression, Some(1001), None)) >>]

\* A rule whose threshold is the number NaN
CfgNaN ==
  [name |-> "nan", files |-> <<"src/**/*.ts">>, ignores |-> None,
   rules |-> << Decl("quality", Rule(UuidQuality, Some(NaN), None)) >>]

\* What a configuration file may export
LoadableConfigs ==
  {CfgSrc, CfgDocs, CfgEmptyFiles, CfgNoRules, CfgUnnamed, CfgBadRules, CfgNaN}

LoadedLists == SeqsUpTo(LoadableConfigs, MaxConfigs)

RECURSIVE Concat(_)
Concat(lists) ==
  IF lists = <<>> THEN <<>> ELSE Head(lists) \o Concat(Tail(lists))

\* The errors the body of the rule loop pushes for one entry
RuleErrors(entry) ==
  LET ruleId == entry.key
      rule == entry.rule
  IN (IF rule.metricId = ""
      THEN << <<"Rule \"", ruleId, "\" must have a \"metricId\" property of type string">> >>
      ELSE IF ~isValidUUID(rule.metricId)
      THEN << <<"Rule \"", ruleId, "\" metricId \"", rule.metricId,
                "\" is not a valid UUID">> >>
      ELSE <<>>)
     \o
     (IF rule.threshold # None
         /\ (LessThan(rule.threshold[1], -1000) \/ GreaterThan(rule.threshold[1], 1000))
      THEN << <<"Rule \"", ruleId, "\" threshold must be between -1 and 1">> >>
      ELSE <<>>)

validateConfig(config) ==
  LET entries == ObjectEntries(config.rules)
      errors ==
        (IF config.name = ""
         THEN << <<"Configuration must have a \"name\" property of type string">> >>
         ELSE <<>>)
        \o Concat([k \in 1..Len(entries) |-> RuleErrors(entries[k])])
      warnings ==
        (IF Len(config.files) = 0
         THEN << <<"Configuration has empty \"files\" array - no files will be evaluated">> >>
         ELSE <<>>)
        \o (IF Len(entries) = 0
            THEN << <<"Configuration has no rules defined">> >>
            ELSE <<>>)
  IN [success |-> Len(errors) = 0, errors |-> errors, warnings |-> warnings]

\* 'Config ${index + 1} (${config.name || 'unnamed'}): '
ConfigPrefix(index, config) ==
  <<"Config ", ToString(index + 1), " (",
    IF config.name # "" THEN config.name ELSE "unnamed", "): ">>

validateConfigsFirstFailureOnly(cfgs) ==
  LET failing == {i \in 1..Len(cfgs) : ~validateConfig(cfgs[i]).success}
      first == CHOOSE i \in failing : \A j \in failing : i <= j
      errors ==
        IF Len(cfgs) = 0 THEN << <<"At least one configuration must be provided">> >>
        ELSE IF failing = {} THEN <<>>
        ELSE [k \in 1..Len(validateConfig(cfgs[first]).errors) |->
                ConfigPrefix(first - 1, cfgs[first]) \o validateConfig(cfgs[first]).errors[k]]
  IN [success |-> Len(errors) = 0, errors |-> errors, warnings |-> <<>>]

validateConfigs(cfgs) ==
  LET result(i) == validateConfig(cfgs[i])
      prefix(i) == ConfigPrefix(i - 1, cfgs[i])
      \* configNames holds every non-empty name of an earlier config
      duplicate(i) == cfgs[i].name # "" /\ \E j \in 1..(i - 1) : cfgs[j].name = cfgs[i].name
      errorsOf(i) ==
        [k \in 1..Len(result(i).errors) |-> prefix(i) \o result(i).errors[k]]
        \o (IF duplicate(i)
            THEN << <<"Duplicate configuration name: \"", cfgs[i].name, "\"">> >>
            ELSE <<>>)
      warningsOf(i) ==
        [k \in 1..Len(result(i).warnings) |-> prefix(i) \o result(i).warnings[k]]
      allErrors ==
        Concat([i \in 1..Len(cfgs) |-> errorsOf(i)])
        \o (IF Len(cfgs) = 0
            THEN << <<"At least one configuration must be provided">> >>
            ELSE <<>>)
      allWarnings == Concat([i \in 1..Len(cfgs) |-> warningsOf(i)])
  IN [success |-> Len(allErrors) = 0, errors |-> allErrors, warnings |-> allWarnings]


(***************************************************************************)
(* MandolineCI.evaluateDiff: prepareEvaluationContext, then                *)
(* executeEvaluations (core.ts)                                            *)
(***************************************************************************)
CONFIG_FILENAMES ==
  << <<"mandoline-ci.config.js">>, <<".mandoline-ci.js">>,
     <<"mandoline-ci.config.mjs">>, <<".mandoline-ci.mjs">> >>

\* The options evaluateDiff is called with
EvaluateDiffOptions ==
  [base : {"main"}, head : {"feature"}, intent : {None, Some(""), Some("Implement feature")}]

validateGitRefsBaseOnly(base, head, existing) ==
  IF base \notin existing
  THEN Some(<<"Base reference \"", base, "\" does not exist">>)
  ELSE None

\* validateGitRefs: the error it raises, None if both references exist
validateGitRefs(base, head, existing) ==
  IF base \notin existing
  THEN Some(<<"Base reference \"", base, "\" does not exist">>)
  ELSE IF head \notin existing
  THEN Some(<<"Head reference \"", head, "\" does not exist">>)
  ELSE None

\* What the pull-request source and the commit-message source can yield
PullRequestIntents == {None, Some([source |-> "github_pr", content |-> "Add feature (#12)"])}
CommitIntents == {None, Some([source |-> "commit_message", content |-> "add feature"])}

\* extractIntent: the first source that yields one, None if it throws
extractIntent(manualIntent, githubIntent, commitIntent) ==
  IF Truthy(manualIntent)
  THEN Some([source |-> "manual", content |-> manualIntent[1]])
  ELSE IF githubIntent # None THEN githubIntent
  ELSE commitIntent

ValidationIgnored(validation) == FALSE

\* if (!validation.success) throw
ValidationFails(validation) == ~validation.success

PipeThrows(message) ==
  /\ pipePc' = "threw"
  /\ pipeError' = Some(message)
  /\ UNCHANGED pipeReturned

\* The repository: which of the two references git rev-parse --verify resolves, and
\* whether the diff between them has no changed file
PipeWorlds(opts) ==
  [resolvable : SUBSET {opts.base, opts.head}, emptyDiff : BOOLEAN]

NoFilesChangedNever(files) == FALSE

\* if (gitDiff.files.length === 0)
NoFilesChanged(files) == Len(files) = 0

\* evaluateDiff(options) on a MandolineCI instance
PipeInit ==
  /\ ExecIdle /\ RefIdle /\ UnitsIdle
  /\ options \in EvaluateDiffOptions
  /\ pipeWorld \in PipeWorlds(options)
  /\ pipePc = "validateGitRefs" /\ stages = <<>> /\ loaded = <<>> /\ warned = None
  /\ prepared = [intentSource |-> None, gitDiff |-> None]
  /\ pipeReturned = None /\ pipeError = None

\* await validateGitRefs(base, head, workingDirectory)
GitRefsOk ==
  /\ pipePc = "validateGitRefs"
  /\ validateGitRefs(options.base, options.head, pipeWorld.resolvable) = None
  /\ stages' = Append(stages, "validateGitRefs")
  /\ pipePc' = "discoverConfig"
  /\ UNCHANGED <<options, pipeWorld, loaded, warned, prepared, pipeReturned, pipeError>>
  /\ UNCHANGED <<execVars, refVars, unitVars>>

GitRefsThrows ==
  /\ pipePc = "validateGitRefs"
  /\ LET failure == validateGitRefs(options.base, options.head, pipeWorld.resolvable)
     IN failure # None /\ PipeThrows(failure[1])
  /\ stages' = Append(stages, "validateGitRefs")
  /\ UNCHANGED <<options, pipeWorld, loaded, warned, prepared>>
  /\ UNCHANGED <<execVars, refVars, unitVars>>

\* const configs = await discoverConfig(...): a configuration file is found
DiscoverOk ==
  /\ pipePc = "discoverConfig"
  /\ loaded' \in LoadedLists
  /\ stages' = Append(stages, "discoverConfig")
  /\ pipePc' = "validateConfigs"
  /\ UNCHANGED <<options, pipeWorld, warned, prepared, pipeReturned, pipeError>>
  /\ UNCHANGED <<execVars, refVars, unitVars>>

\* ... or none is
DiscoverThrows ==
  /\ pipePc = "discoverConfig"
  /\ stages' = Append(stages, "discoverConfig")
  /\ PipeThrows(<<"No configuration file found. Expected one of: ">>
                  \o Join(CONFIG_FILENAMES, ", "))
  /\ UNCHANGED <<options, pipeWorld, loaded, warned, prepared>>
  /\ UNCHANGED <<execVars, refVars, unitVars>>

\* const validation = validateConfigs(configs); throw if it did not succeed
ValidationThrows ==
  /\ pipePc = "validateConfigs"
  /\ LET validation == validateConfigs(loaded)
     IN /\ ValidationFails(validation)
        /\ PipeThrows(<<"Configuration validation failed: ">>
                        \o Join(validation.errors, "; "))
  /\ stages' = Append(stages, "validateConfigs")
  /\ UNCHANGED <<options, pipeWorld, loaded, warned, prepared>>
  /\ UNCHANGED <<execVars, refVars, unitVars>>

\* ... else emit the warnings, if any, and go on
ValidationPasses ==
  /\ pipePc = "validateConfigs"
  /\ LET validation == validateConfigs(loaded)
     IN /\ ~ValidationFails(validation)
        /\ warned' = IF Len(validation.warnings) > 0
                     THEN Some(<<"Configuration warnings: ">>
                                 \o Join(validation.warnings, "; "))
                     ELSE None
  /\ stages' = Append(stages, "validateConfigs")
  /\ pipePc' = "extractIntent"
  /\ UNCHANGED <<options, pipeWorld, loaded, prepared, pipeReturned, pipeError>>
  /\ UNCHANGED <<execVars, refVars, unitVars>>

\* const intentSource = await extractIntent(base, head, manualIntent, workingDirectory)
IntentOk ==
  /\ pipePc = "extractIntent"
  /\ \E githubIntent \in PullRequestIntents, commitIntent \in CommitIntents :
       LET found == extractIntent(options.intent, githubIntent, commitIntent)
       IN /\ found # None
          /\ prepared' = [prepared EXCEPT !.intentSource = found]
  /\ stages' = Append(stages, "extractIntent")
  /\ pipePc' = "analyzeGitDiff"
  /\ UNCHANGED <<options, pipeWorld, loaded, warned, pipeReturned, pipeError>>
  /\ UNCHANGED <<execVars, refVars, unitVars>>

IntentThrows ==
  /\ pipePc = "extractIntent"
  /\ \E githubIntent \in PullRequestIntents, commitIntent \in CommitIntents :
       extractIntent(options.intent, githubIntent, commitIntent) = None
  /\ stages' = Append(stages, "extractIntent")
  /\ PipeThrows(<<"Unable to extract intent: no manual intent provided, no GitHub PR detected, and no commits found between base and head">>)
  /\ UNCHANGED <<options, pipeWorld, loaded, warned, prepared>>
  /\ UNCHANGED <<execVars, refVars, unitVars>>

\* const gitDiff = await analyzeGitDiff(base, head, workingDirectory)
DiffOk ==
  /\ pipePc = "analyzeGitDiff"
  /\ \E files \in DiffFileLists :
       /\ (files = <<>>) <=> pipeWorld.emptyDiff
       /\ prepared' = [prepared EXCEPT !.gitDiff =
                         Some([base |-> options.base, head |-> options.head,
                               files |-> files])]
  /\ stages' = Append(stages, "analyzeGitDiff")
  /\ pipePc' = "prepared"
  /\ UNCHANGED <<options, pipeWorld, loaded, warned, pipeReturned, pipeError>>
  /\ UNCHANGED <<execVars, refVars, unitVars>>

DiffThrows ==
  /\ pipePc = "analyzeGitDiff"
  /\ stages' = Append(stages, "analyzeGitDiff")
  /\ PipeThrows(<<"Git analysis failed: ", "not a git repository">>)
  /\ UNCHANGED <<options, pipeWorld, loaded, warned, prepared>>
  /\ UNCHANGED <<execVars, refVars, unitVars>>

\* if (gitDiff.files.length === 0) return []
NoFilesReturn ==
  /\ pipePc = "prepared"
  /\ NoFilesChanged(prepared.gitDiff[1].files)
  /\ pipePc' = "returned"
  /\ pipeReturned' = Some(<<>>)
  /\ UNCHANGED <<options, pipeWorld, stages, loaded, warned, prepared, pipeError>>
  /\ UNCHANGED <<execVars, refVars, unitVars>>

\* return await executeEvaluations({...}): the call
CallExecute ==
  /\ pipePc = "prepared"
  /\ ~NoFilesChanged(prepared.gitDiff[1].files)
  /\ configs' = loaded
  /\ gitDiff' = prepared.gitDiff[1]
  /\ intentSource' = prepared.intentSource[1]
  /\ workTree' \in WorkTrees
  /\ pc' = "config" /\ ci' = 1
  /\ stages' = Append(stages, "executeEvaluations")
  /\ pipePc' = "executing"
  /\ UNCHANGED <<filteredFiles, pending, results, returned, error, calls, trail>>
  /\ UNCHANGED <<options, pipeWorld, loaded, warned, prepared, pipeReturned, pipeError>>
  /\ UNCHANGED <<refVars, unitVars>>

\* ... and its outcome, which is evaluateDiff's
ExecuteSettles ==
  /\ pipePc = "executing"
  /\ pc \in {"returned", "threw"}
  /\ pipePc' = pc
  /\ pipeReturned' = returned
  /\ pipeError' = IF error = None THEN None ELSE Some(<<error[1]>>)
  /\ UNCHANGED <<options, pipeWorld, stages, loaded, warned, prepared>>
  /\ UNCHANGED <<execVars, refVars, unitVars>>

PipeNext ==
  \/ GitRefsOk \/ GitRefsThrows
  \/ DiscoverOk \/ DiscoverThrows
  \/ ValidationThrows \/ ValidationPasses
  \/ IntentOk \/ IntentThrows
  \/ DiffOk \/ DiffThrows
  \/ NoFilesReturn \/ CallExecute
  \/ SkipConfig \/ EnterConfig \/ EvaluateRule \/ ScorerThrows \/ ExecReturn
  \/ ExecuteSettles

SpecPipe == PipeInit /\ [][PipeNext]_vars

(***************************************************************************)
(* Claims about MandolineCI.evaluateDiff, checked under SpecPipe           *)
(***************************************************************************)
Called(stage) == \E k \in 1..Len(stages) : stages[k] = stage

\* The pieces of text occur in message, side by side
Occurs(text, message) ==
  \E at \in 0..(Len(message) - Len(text)) :
    \A k \in 1..Len(text) : message[at + k] = text[k]

\* C7: in evaluateDiff, when validateConfigs reports at least one error for the loaded
\* configs, the run fails with the 'Configuration validation failed' error, which
\* lists every error reported, in order, and no intent extraction, no diff extraction
\* and no scorer call happens in the run.
C7_ValidationFailureIsFatal ==
  LET report == validateConfigs(loaded)
  IN (Called("validateConfigs") /\ Len(report.errors) > 0) =>
       /\ pipePc = "threw" /\ pipeReturned = None
       /\ pipeError # None
       /\ Head(pipeError[1]) = "Configuration validation failed: "
       /\ Tail(pipeError[1]) = Join(report.errors, "; ")
       /\ \A k \in 1..Len(report.errors) : Occurs(report.errors[k], pipeError[1])
       /\ ~Called("extractIntent") /\ ~Called("analyzeGitDiff")
       /\ ~Called("executeEvaluations")
       /\ prepared = [intentSource |-> None, gitDiff |-> None]
       /\ pc = "idle" /\ calls = <<>> /\ trail = <<>>

\* C7 witness: two loaded configs each have errors of their own, three or more in
\* all, and the run has failed on them.
C7_Witness ==
  /\ Called("validateConfigs") /\ pipePc = "threw"
  /\ Len(loaded) = 2
  /\ ~validateConfig(loaded[1]).success /\ ~validateConfig(loaded[2]).success
  /\ Len(validateConfigs(loaded).errors) >= 3


(***************************************************************************)
(* Intent Extractor: extractIntent (intent.ts)                             *)
(*                                                                         *)
(* Each source is an operator giving the value the function returns and    *)
(* the log of what it read, queried and warned about on the way.           *)
(* Confidence is times 1000.                                               *)
(***************************************************************************)
\* Length bound of a commit log
MaxCommits == 2

CommitMessages == {"fix: login", "feat: export"}

IntentArguments ==
  [base : {"main", EMPTY_TREE_HASH}, head : {"feature"},
   manualIntent : {None, Some(""), Some("Fix login bug")}]

IntentEnvironments ==
  [GITHUB_PR_NUMBER : {None, Some(""), Some("456")},
   GITHUB_EVENT_PULL_REQUEST_NUMBER : {None, Some("789")},
   GITHUB_REF : {None, Some("refs/pull/123/merge"), Some("refs/pull/124/head"),
                 Some("refs/pull/abc/merge"), Some("refs/heads/main")},
   GITHUB_EVENT_PATH : {None, Some(""), Some("/github/event.json")}]

\* The file at GITHUB_EVENT_PATH: missing, not JSON, or JSON with this content
EventFiles ==
  {[file |-> "missing", json |-> None], [file |-> "malformed", json |-> None],
   [file |-> "json", json |-> None]}
  \cup {[file |-> "json", json |-> Some([pull_request |-> pr])] :
          pr \in {None} \cup {Some([body |-> b, title |-> t]) :
                                b \in {None, Some(""), Some("Adds CSV export")},
                                t \in {None, Some("Export")}}}

\* The repository as git.log sees it: the log of HEAD and the log of the range, each
\* most recent first; None when git fails
GitLogs ==
  {None} \cup {Some([headLog |-> h, rangeLog |-> r]) :
                 h \in SeqsUpTo(CommitMessages, MaxCommits),
                 r \in SeqsUpTo(CommitMessages, MaxCommits)}

Yields(value, log) == [value |-> value, log |-> log]

IntentOf(source, content, confidence) ==
  [source |-> source, content |-> content, success |-> TRUE, confidence |-> confidence]

\* ref.match(/refs\/pull\/(\d+)\/(merge|head)/): the number captured, None if no match
extractPRFromRef(ref) ==
  IF ~Truthy(ref) THEN None
  ELSE CASE ref[1] = "refs/pull/123/merge" -> Some("123")
         [] ref[1] = "refs/pull/124/head" -> Some("124")
         [] OTHER -> None

PRNumberRefFirst(env) ==
  IF Truthy(extractPRFromRef(env.GITHUB_REF))
  THEN Yields(extractPRFromRef(env.GITHUB_REF), <<"env.GITHUB_REF">>)
  ELSE IF Truthy(env.GITHUB_PR_NUMBER)
  THEN Yields(env.GITHUB_PR_NUMBER, <<"env.GITHUB_REF", "env.GITHUB_PR_NUMBER">>)
  ELSE Yields(env.GITHUB_EVENT_PULL_REQUEST_NUMBER,
              <<"env.GITHUB_REF", "env.GITHUB_PR_NUMBER",
                "env.GITHUB_EVENT_PULL_REQUEST_NUMBER">>)

\* GITHUB_PR_NUMBER || GITHUB_EVENT_PULL_REQUEST_NUMBER || extractPRFromRef(GITHUB_REF)
PRNumber(env) ==
  IF Truthy(env.GITHUB_PR_NUMBER)
  THEN Yields(env.GITHUB_PR_NUMBER, <<"env.GITHUB_PR_NUMBER">>)
  ELSE IF Truthy(env.GITHUB_EVENT_PULL_REQUEST_NUMBER)
  THEN Yields(env.GITHUB_EVENT_PULL_REQUEST_NUMBER,
              <<"env.GITHUB_PR_NUMBER", "env.GITHUB_EVENT_PULL_REQUEST_NUMBER">>)
  ELSE Yields(extractPRFromRef(env.GITHUB_REF),
              <<"env.GITHUB_PR_NUMBER", "env.GITHUB_EVENT_PULL_REQUEST_NUMBER",
                "env.GITHUB_REF">>)

getPRDescriptionFromEvent(env, event) ==
  IF ~Truthy(env.GITHUB_EVENT_PATH)
  THEN Yields(None, <<"env.GITHUB_EVENT_PATH">>)
  ELSE IF event.file = "missing"
  THEN Yields(None, <<"env.GITHUB_EVENT_PATH", "readFile", "console.warn">>)
  ELSE IF event.file = "malformed"
  THEN Yields(None, <<"env.GITHUB_EVENT_PATH", "readFile", "JSON.parse", "console.warn">>)
  ELSE IF event.json = None
  \* the file holds JSON null: reading a property of it throws
  THEN Yields(None, <<"env.GITHUB_EVENT_PATH", "readFile", "JSON.parse", "console.warn">>)
  ELSE LET pr == event.json[1].pull_request
           read == <<"env.GITHUB_EVENT_PATH", "readFile", "JSON.parse">>
       IN IF pr # None /\ Truthy(pr[1].body) THEN Yields(pr[1].body, read)
          ELSE IF pr # None /\ Truthy(pr[1].title) THEN Yields(pr[1].title, read)
          ELSE Yields(None, read)

extractGitHubPRIntentDescribedOnly(env, event) ==
  LET prNumber == PRNumber(env)
      found == getPRDescriptionFromEvent(env, event)
  IN IF ~Truthy(prNumber.value) THEN Yields(None, prNumber.log)
     ELSE IF ~Truthy(found.value) THEN Yields(None, prNumber.log \o found.log)
     ELSE Yields(Some(IntentOf("github_pr", <<found.value[1]>>, 800)),
                 prNumber.log \o found.log)

extractGitHubPRIntent(env, event) ==
  LET prNumber == PRNumber(env)
      found == getPRDescriptionFromEvent(env, event)
      prDescription ==
        IF Truthy(found.value) THEN <<found.value[1]>>
        ELSE <<"Implement changes from GitHub PR #", prNumber.value[1]>>
  IN IF ~Truthy(prNumber.value)
     THEN Yields(None, prNumber.log)
     ELSE Yields(Some(IntentOf("github_pr", prDescription, 800)),
                 prNumber.log \o found.log)

Min(a, b) == IF a <= b THEN a ELSE b

extractCommitIntentRangeAlways(base, head, git) ==
  IF git = None THEN Yields(None, <<"git.log", "console.warn">>)
  ELSE IF Len(git[1].rangeLog) = 0 THEN Yields(None, <<"git.log">>)
  ELSE Yields(Some(IntentOf("commit_message",
                            Join([k \in 1..Len(git[1].rangeLog) |-> <<git[1].rangeLog[k]>>],
                                 "\n"), 600)),
              <<"git.log">>)

extractCommitIntent(base, head, git) ==
  IF git = None THEN Yields(None, <<"git.log", "console.warn">>)
  ELSE LET all == IF base = EMPTY_TREE_HASH
                  \* git.log({ maxCount: 1 })
                  THEN SubSeq(git[1].headLog, 1, Min(1, Len(git[1].headLog)))
                  \* git.log({ from: base, to: head })
                  ELSE git[1].rangeLog
           messages == [k \in 1..Len(all) |-> <<all[k]>>]
       IN IF Len(all) = 0 THEN Yields(None, <<"git.log">>)
          ELSE Yields(Some(IntentOf("commit_message", Join(messages, "\n"), 600)),
                      <<"git.log">>)


ManualUnlessPullRequest(manualIntent) ==
  Truthy(manualIntent) /\ ~Truthy(PRNumber(intentWorld.env).value)

\* if (manualIntent)
ManualGiven(manualIntent) == Truthy(manualIntent)

UnableToExtract ==
  <<"Unable to extract intent: no manual intent provided, no GitHub PR detected, and no commits found between base and head">>

\* extractIntent(base, head, manualIntent, workingDir)
IntentInit ==
  /\ ExecIdle /\ RefIdle /\ PipeIdle /\ DiffIdle /\ FormatIdle /\ SetupIdle
  /\ intentArgs \in IntentArguments
  /\ intentWorld \in [env : IntentEnvironments, event : EventFiles, git : GitLogs]
  /\ intentPc = "manual" /\ intentLog = <<>>
  /\ intentOut = None /\ intentErr = None

\* The manual intent is returned at once
ReturnManual ==
  /\ intentPc = "manual"
  /\ ManualGiven(intentArgs.manualIntent)
  /\ intentOut' = Some(IntentOf("manual", <<intentArgs.manualIntent[1]>>, 1000))
  /\ intentPc' = "done"
  /\ UNCHANGED <<intentArgs, intentWorld, intentLog, intentErr>>
  /\ UNCHANGED besideIntent

\* const githubIntent = await extractGitHubPRIntent(); if (githubIntent) return it
GitHubPRFound ==
  /\ intentPc = "manual"
  /\ ~ManualGiven(intentArgs.manualIntent)
  /\ LET github == extractGitHubPRIntent(intentWorld.env, intentWorld.event)
     IN /\ github.value # None
        /\ intentOut' = github.value
        /\ intentLog' = intentLog \o github.log
  /\ intentPc' = "done"
  /\ UNCHANGED <<intentArgs, intentWorld, intentErr>>
  /\ UNCHANGED besideIntent

GitHubPRMissed ==
  /\ intentPc = "manual"
  /\ ~ManualGiven(intentArgs.manualIntent)
  /\ LET github == extractGitHubPRIntent(intentWorld.env, intentWorld.event)
     IN /\ github.value = None
        /\ intentLog' = intentLog \o github.log
  /\ intentPc' = "commit"
  /\ UNCHANGED <<intentArgs, intentWorld, intentOut, intentErr>>
  /\ UNCHANGED besideIntent

\* const commitIntent = await extractCommitIntent(...); if (commitIntent) return it
CommitFound ==
  /\ intentPc = "commit"
  /\ LET commit == extractCommitIntent(intentArgs.base, intentArgs.head, intentWorld.git)
     IN /\ commit.value # None
        /\ intentOut' = commit.value
        /\ intentLog' = intentLog \o commit.log
  /\ intentPc' = "done"
  /\ UNCHANGED <<intentArgs, intentWorld, intentErr>>
  /\ UNCHANGED besideIntent

\* ... else throw: no intent found
CommitMissed ==
  /\ intentPc = "commit"
  /\ LET commit == extractCommitIntent(intentArgs.base, intentArgs.head, intentWorld.git)
     IN /\ commit.value = None
        /\ intentLog' = intentLog \o commit.log
  /\ intentErr' = Some(UnableToExtract)
  /\ intentPc' = "threw"
  /\ UNCHANGED <<intentArgs, intentWorld, intentOut>>
  /\ UNCHANGED besideIntent

IntentNext ==
  ReturnManual \/ GitHubPRFound \/ GitHubPRMissed \/ CommitFound \/ CommitMissed

SpecIntent == IntentInit /\ [][IntentNext]_vars


(***************************************************************************)
(* Claims about extractIntent, checked under SpecIntent                    *)
(***************************************************************************)
IntentSettled == intentPc \in {"done", "threw"}

\* A pull-request number can be determined from the environment
PRNumberKnown ==
  \/ IsSet(intentWorld.env.GITHUB_PR_NUMBER)
  \/ IsSet(intentWorld.env.GITHUB_EVENT_PULL_REQUEST_NUMBER)
  \/ intentWorld.env.GITHUB_REF \in {Some("refs/pull/123/merge"), Some("refs/pull/124/head")}

\* The commits the commit-message source is to use (none on a git error)
CommitsToUse ==
  IF intentWorld.git = None THEN <<>>
  ELSE IF intentArgs.base = EMPTY_TREE_HASH
  THEN (IF intentWorld.git[1].headLog = <<>> THEN <<>>
        ELSE <<Head(intentWorld.git[1].headLog)>>)
  ELSE intentWorld.git[1].rangeLog

Logged(entry) == \E k \in 1..Len(intentLog) : intentLog[k] = entry

\* C13: given a non-empty manual intent string, extractIntent returns source manual
\* with exactly that content and confidence 1.0, and consults nothing else: it reads
\* no environment variable and no event payload and queries no commit log, whatever
\* pull-request variables are set.
C13_ManualIntentFirst ==
  (IsSet(intentArgs.manualIntent) /\ intentPc # "manual") =>
    /\ intentPc = "done" /\ intentErr = None
    /\ intentOut = Some([source |-> "manual",
                         content |-> <<intentArgs.manualIntent[1]>>,
                         success |-> TRUE, confidence |-> 1000])
    /\ intentLog = <<>>

\* C13 witness: a manual intent was given while a pull-request number and an event
\* payload with a description were there to read, and the call has returned.
C13_Witness ==
  /\ intentPc = "done" /\ IsSet(intentArgs.manualIntent)
  /\ intentWorld.env.GITHUB_PR_NUMBER = Some("456")
  /\ intentWorld.env.GITHUB_EVENT_PATH = Some("/github/event.json")
  /\ intentWorld.event.file = "json" /\ intentWorld.event.json # None

\* C14: extractIntent ends with exactly one IntentSource or with the 'Unable to
\* extract intent' error; it fails exactly when no non-empty manual intent was given,
\* no pull-request number can be determined, and the commit-message source has no
\* commits or hit a git error; no other error ever leaves it.
C14_FailsOnlyWhenAllSourcesMiss ==
  IntentSettled =>
    /\ (intentOut # None) # (intentErr # None)
    /\ (intentPc = "threw") <=> (intentErr # None)
    /\ intentErr # None => intentErr = Some(UnableToExtract)
    /\ (intentPc = "threw") <=>
         (~IsSet(intentArgs.manualIntent) /\ ~PRNumberKnown /\ CommitsToUse = <<>>)

\* C14 witness: with a pull-request number known, the event payload could not be
\* parsed, and the call still returned an IntentSource.
C14_Witness ==
  /\ intentPc = "done" /\ ~IsSet(intentArgs.manualIntent)
  /\ PRNumberKnown
  /\ intentWorld.env.GITHUB_EVENT_PATH = Some("/github/event.json")
  /\ intentWorld.event.file = "malformed"
  /\ intentWorld.git = None

\* C15: the commit-message source uses only the most recent commit's message when
\* base is the empty-tree hash, and every message of the range otherwise; with no
\* commit it yields nothing, and otherwise its content is the messages in log order
\* joined by newlines, with source commit_message and confidence 0.6.
C15_CommitMessagesUsed ==
  (IntentSettled /\ Logged("git.log") /\ intentWorld.git # None) =>
    LET used == CommitsToUse
    IN IF used = <<>>
       THEN intentOut = None /\ intentPc = "threw"
       ELSE /\ intentOut # None
            /\ intentOut[1].source = "commit_message"
            /\ intentOut[1].confidence = 600
            /\ Len(intentOut[1].content) = 2 * Len(used) - 1
            /\ \A k \in 1..Len(used) : intentOut[1].content[2 * k - 1] = used[k]
            /\ \A k \in 1..(Len(used) - 1) : intentOut[1].content[2 * k] = "\n"

\* C15 witness: base is the empty-tree hash, HEAD has two commits and the range two,
\* and the source returned the most recent message alone.
C15_Witness ==
  /\ intentPc = "done" /\ Logged("git.log")
  /\ intentArgs.base = EMPTY_TREE_HASH
  /\ intentWorld.git # None
  /\ Len(intentWorld.git[1].headLog) = 2 /\ Len(intentWorld.git[1].rangeLog) = 2
  /\ intentWorld.git[1].headLog[1] # intentWorld.git[1].headLog[2]
  /\ intentOut[1].content = <<intentWorld.git[1].headLog[1]>>


(***************************************************************************)
(* Diff Analyzer: analyzeGitDiff (git.ts)                                  *)
(***************************************************************************)
\* Length bound of the diff summary
MaxSummary == 2

\* The entries git's diff summary can hold for a path: text files with their counts,
\* binary files with counts or without (undefined)
SummaryEntries ==
  {[file |-> f, binary |-> FALSE, insertions |-> Some(i), deletions |-> Some(d)] :
     f \in {"src/a.ts", "src/new.ts"}, i \in {0, 2}, d \in {0, 1}}
  \cup {[file |-> "logo.png", binary |-> TRUE, insertions |-> c[1], deletions |-> c[2]] :
          c \in {<<None, None>>, <<Some(0), Some(0)>>, <<Some(2), Some(0)>>,
                 <<Some(0), Some(1)>>, <<Some(2), Some(1)>>}}

\* diff.files: no path twice
DiffSummaries ==
  {q \in SeqsUpTo(SummaryEntries, MaxSummary) :
     \A i, j \in 1..Len(q) : i # j => q[i].file # q[j].file}

\* The lines of git diff --name-status -M, each split at its tabs
NameStatusOutputs ==
  {<< <<"M", "src/a.ts">> >>,
   << <<"M", "src/a.ts">>, <<"R100", "src/old.ts", "src/new.ts">> >>}

\* What git show answers for <ref>:<path>; None when it fails
ShowOutcomes == {None, Some("export const a = 1;")}

\* What git diff answers for one file; None when it fails
FileDiffOutcomes == {None, Some("@@ -1 +1 @@")}

\* git.checkIsRepo() resolves (TRUE) or rejects (FALSE); git.diffSummary() answers or
\* fails (None)
DiffWorlds ==
  [checkIsRepo : BOOLEAN,
   summary : {None} \cup {Some(q) : q \in DiffSummaries},
   nameStatus : {None} \cup {Some(o) : o \in NameStatusOutputs}]

\* x > 0 and x === 0 for a count that may be undefined
GreaterThanZero(count) == count # None /\ count[1] > 0
IsZero(count) == count # None /\ count[1] = 0

determineFileStatusBinaryModified(file) ==
  IF file.binary THEN "modified"
  ELSE IF GreaterThanZero(file.insertions) /\ IsZero(file.deletions) THEN "added"
  ELSE IF IsZero(file.insertions) /\ GreaterThanZero(file.deletions) THEN "deleted"
  ELSE "modified"

determineFileStatus(file) ==
  IF file.binary
  THEN (IF GreaterThanZero(file.insertions) /\ IsZero(file.deletions) THEN "added"
        ELSE IF IsZero(file.insertions) /\ GreaterThanZero(file.deletions) THEN "deleted"
        ELSE "modified")
  ELSE (IF GreaterThanZero(file.insertions) /\ IsZero(file.deletions) THEN "added"
        ELSE IF IsZero(file.insertions) /\ GreaterThanZero(file.deletions) THEN "deleted"
        ELSE "modified")

\* parts[0].startsWith('R')
StartsWithR(text) == text \in {"R100"}

\* getRenameInfo: the old path of the first rename line whose new path is currentPath
getRenameInfo(nameStatus, currentPath) ==
  IF nameStatus = None THEN None
  ELSE LET lines == nameStatus[1]
           hits == {k \in 1..Len(lines) :
                      /\ Len(lines[k]) >= 3
                      /\ StartsWithR(lines[k][1])
                      /\ lines[k][3] = currentPath}
       IN IF hits = {} THEN None
          ELSE Some([oldPath |-> lines[CHOOSE k \in hits : \A h \in hits : k <= h][2]])

GitCommand(cmd, ref, path) == [cmd |-> cmd, ref |-> ref, path |-> path]

getFileDiffFailureEscapes == FALSE

\* getFileDiff has its git.diff call in a try whose catch warns and returns ''
getFileDiffFailureCaught == TRUE

\* getFileDiff: what git diff answered for the file, '' when it failed
getFileDiff(fileDiff) == IF fileDiff = None THEN "" ELSE fileDiff[1]

\* The GitFileChange analyzeGitDiff builds for one summary file, and the commands it
\* issues for it, given what git answers
AnalyzeOne(file, base, head, nameStatus, fileDiff, before, after) ==
  LET status == determineFileStatus(file)
      path == file.file
      change == [path |-> path, status |-> status,
                 diff |-> getFileDiff(fileDiff),
                 oldPath |-> None, beforeContent |-> None, afterContent |-> None]
      diffCmd == <<GitCommand("diff", base, path)>>
      renameInfo == getRenameInfo(nameStatus, path)
      \* what git was asked for this file and answered
      answered(b, a) == [fileDiff |-> fileDiff, before |-> b, after |-> a]
  IN CASE status = "added" ->
            [change |-> [change EXCEPT !.afterContent = after],
             log |-> diffCmd \o <<GitCommand("show", head, path)>>,
             answers |-> answered("unasked", after)]
       [] status = "deleted" ->
            [change |-> [change EXCEPT !.beforeContent = before],
             log |-> diffCmd \o <<GitCommand("show", base, path)>>,
             answers |-> answered(before, "unasked")]
       [] status = "modified" ->
            [change |-> [change EXCEPT !.beforeContent = before, !.afterContent = after],
             log |-> diffCmd \o <<GitCommand("show", base, path),
                                  GitCommand("show", head, path)>>,
             answers |-> answered(before, after)]
       [] status = "renamed" /\ renameInfo # None ->
            [change |-> [change EXCEPT !.oldPath = Some(renameInfo[1].oldPath),
                                       !.beforeContent = before, !.afterContent = after],
             log |-> diffCmd \o <<GitCommand("name-status", base, path),
                                  GitCommand("show", base, renameInfo[1].oldPath),
                                  GitCommand("show", head, path)>>,
             answers |-> answered(before, after)]
       [] status = "renamed" /\ renameInfo = None ->
            [change |-> change,
             log |-> diffCmd \o <<GitCommand("name-status", base, path)>>,
             answers |-> answered("unasked", "unasked")]
       [] OTHER -> [change |-> change, log |-> diffCmd,
                    answers |-> answered("unasked", "unasked")]

\* analyzeGitDiff(base, head, workingDir)
DiffInit ==
  /\ ExecIdle /\ RefIdle /\ PipeIdle /\ IntentIdle /\ FormatIdle /\ SetupIdle
  /\ diffArgs \in [base : {"main", EMPTY_TREE_HASH}, head : {"feature"}]
  /\ diffWorld \in DiffWorlds
  /\ diffPc = "summary" /\ diffIndex = 0 /\ diffFiles = <<>> /\ diffLog = <<>>
  /\ diffAnswers = <<>>
  /\ diffOut = None /\ diffErr = None

\* await git.checkIsRepo() rejects
RepositoryCheckFails ==
  /\ diffPc = "summary"
  /\ ~diffWorld.checkIsRepo
  /\ diffPc' = "threw"
  /\ diffErr' = Some(<<"Git analysis failed", ": ", "not a git repository">>)
  /\ UNCHANGED <<diffArgs, diffWorld, diffIndex, diffFiles, diffLog, diffAnswers, diffOut>>
  /\ UNCHANGED besideDiff

\* git.diffSummary() fails
SummaryFails ==
  /\ diffPc = "summary"
  /\ diffWorld.checkIsRepo /\ diffWorld.summary = None
  /\ diffPc' = "threw"
  /\ diffErr' = Some(<<"Git analysis failed", ": ", "git error">>)
  /\ UNCHANGED <<diffArgs, diffWorld, diffIndex, diffFiles, diffLog, diffAnswers, diffOut>>
  /\ UNCHANGED besideDiff

SummaryOk ==
  /\ diffPc = "summary"
  /\ diffWorld.checkIsRepo /\ diffWorld.summary # None
  /\ diffPc' = "files" /\ diffIndex' = 1
  /\ UNCHANGED <<diffArgs, diffWorld, diffFiles, diffLog, diffAnswers, diffOut, diffErr>>
  /\ UNCHANGED besideDiff

\* One iteration of for (const file of diff.files)
AnalyzeFile ==
  /\ diffPc = "files" /\ diffIndex <= Len(diffWorld.summary[1])
  /\ \E fileDiff \in FileDiffOutcomes, before \in ShowOutcomes, after \in ShowOutcomes :
       LET one == AnalyzeOne(diffWorld.summary[1][diffIndex], diffArgs.base,
                             diffArgs.head, diffWorld.nameStatus, fileDiff, before, after)
       IN IF fileDiff = None /\ ~getFileDiffFailureCaught
          THEN /\ diffPc' = "threw"
               /\ diffErr' = Some(<<"Git analysis failed", ": ", "git error">>)
               /\ UNCHANGED <<diffFiles, diffLog, diffAnswers, diffIndex>>
          ELSE /\ diffFiles' = Append(diffFiles, one.change)
               /\ diffLog' = diffLog \o one.log
               /\ diffAnswers' = Append(diffAnswers, one.answers)
               /\ diffIndex' = diffIndex + 1
               /\ UNCHANGED <<diffPc, diffErr>>
  /\ UNCHANGED <<diffArgs, diffWorld, diffOut>>
  /\ UNCHANGED besideDiff

\* return { base, head, files, summary, ... }
DiffReturn ==
  /\ diffPc = "files" /\ diffIndex > Len(diffWorld.summary[1])
  /\ diffPc' = "returned"
  /\ diffOut' = Some([base |-> diffArgs.base, head |-> diffArgs.head, files |-> diffFiles,
                      filesChanged |-> Len(diffWorld.summary[1]), success |-> TRUE])
  /\ UNCHANGED <<diffArgs, diffWorld, diffIndex, diffFiles, diffLog, diffAnswers, diffErr>>
  /\ UNCHANGED besideDiff

DiffNext == RepositoryCheckFails \/ SummaryFails \/ SummaryOk \/ AnalyzeFile \/ DiffReturn

SpecDiff == DiffInit /\ [][DiffNext]_vars


(***************************************************************************)
(* Claims about analyzeGitDiff, checked under SpecDiff                     *)
(***************************************************************************)
\* The summary file the k-th reported change was built from
SummaryFile(k) == diffWorld.summary[1][k]

\* The rename records of the name-status output: <<old, new>>
RenameRecords ==
  IF diffWorld.nameStatus = None THEN {}
  ELSE LET lines == diffWorld.nameStatus[1]
       IN {<<lines[k][2], lines[k][3]>> :
             k \in {j \in 1..Len(lines) : Len(lines[j]) >= 3 /\ StartsWithR(lines[j][1])}}

Issued(cmd, ref, path) ==
  \E k \in 1..Len(diffLog) : diffLog[k] = [cmd |-> cmd, ref |-> ref, path |-> path]

\* C16: for every file of the diff summary, binary or text, the status is added if
\* and only if insertions > 0 and deletions = 0, deleted if and only if insertions = 0
\* and deletions > 0, and modified in every other case, insertions = deletions = 0
\* among them.  (A count that is undefined is neither > 0 nor = 0.)
C16_StatusFromCounts ==
  \A k \in 1..Len(diffFiles) :
    LET ins == SummaryFile(k).insertions
        del == SummaryFile(k).deletions
        grows == ins \notin {None, Some(0)} /\ del = Some(0)
        shrinks == ins = Some(0) /\ del \notin {None, Some(0)}
        status == diffFiles[k].status
    IN /\ (status = "added") <=> grows
       /\ (status = "deleted") <=> shrinks
       /\ (status = "modified") <=> (~grows /\ ~shrinks)
       /\ (ins = Some(0) /\ del = Some(0)) => status = "modified"

\* C16 witness: a binary file with insertions and no deletions was reported as added,
\* and a text file with neither as modified.
C16_Witness ==
  /\ diffPc = "returned"
  /\ \E k \in 1..Len(diffFiles) :
       SummaryFile(k).binary /\ diffFiles[k].status = "added"
  /\ \E k \in 1..Len(diffFiles) :
       /\ ~SummaryFile(k).binary /\ diffFiles[k].status = "modified"
       /\ SummaryFile(k).insertions = Some(0) /\ SummaryFile(k).deletions = Some(0)

\* C17: in every GitDiffResult analyzeGitDiff returns, no file with status modified
\* has both beforeContent and afterContent absent, however the content retrievals
\* ended.
C17_ModifiedHasContent ==
  diffOut # None =>
    \A k \in 1..Len(diffOut[1].files) :
      LET change == diffOut[1].files[k]
      IN change.status = "modified" =>
           ~(change.beforeContent = None /\ change.afterContent = None)

\* C18: when the name-status output holds a rename record old -> new, the file at
\* path new is reported with status renamed, oldPath = old, beforeContent read from
\* old at base and afterContent read from new at head; and a file without such a
\* record is never reported as renamed.
C18_RenameReported ==
  diffOut # None =>
    \A k \in 1..Len(diffOut[1].files) :
      LET change == diffOut[1].files[k]
      IN /\ \A record \in RenameRecords :
              change.path = record[2] =>
                /\ change.status = "renamed"
                /\ change.oldPath = Some(record[1])
                /\ Issued("show", diffArgs.base, record[1])
                /\ Issued("show", diffArgs.head, record[2])
         /\ change.status = "renamed" =>
              \E record \in RenameRecords : change.path = record[2]


(***************************************************************************)
(* Claims about configuration validation, checked under SpecPipe on the    *)
(* configs discoverConfig returned                                         *)
(***************************************************************************)
Reported(message, list) == \E k \in 1..Len(list) : list[k] = message

\* The position and name a report line starts with
PositionAndName(i) ==
  <<"Config ", ToString(i), " (",
    IF loaded[i].name = "" THEN "unnamed" ELSE loaded[i].name, "): ">>

\* C19: validateConfigs succeeds if and only if the list is non-empty, every config
\* passes validateConfig on its own, and the non-empty names are pairwise distinct;
\* its report holds the errors and the warnings of every config, each behind the
\* config's 1-based position and name, and a 'Duplicate configuration name' error
\* for a name that comes again.
C19_ValidationAggregates ==
  Called("validateConfigs") =>
    LET report == validateConfigs(loaded)
        own(i) == validateConfig(loaded[i])
        positions == 1..Len(loaded)
    IN /\ report.success <=>
            /\ Len(loaded) > 0
            /\ \A i \in positions : own(i).success
            /\ \A i, j \in positions :
                 (i # j /\ loaded[i].name # "") => loaded[i].name # loaded[j].name
       /\ report.success <=> (Len(report.errors) = 0)
       /\ \A i \in positions :
            /\ \A k \in 1..Len(own(i).errors) :
                 Reported(PositionAndName(i) \o own(i).errors[k], report.errors)
            /\ \A k \in 1..Len(own(i).warnings) :
                 Reported(PositionAndName(i) \o own(i).warnings[k], report.warnings)
       /\ \A i, j \in positions :
            (i < j /\ loaded[i].name # "" /\ loaded[i].name = loaded[j].name) =>
              Reported(<<"Duplicate configuration name: \"", loaded[j].name, "\"">>,
                       report.errors)
       /\ ~report.success <=>
            (pipeError # None /\ Head(pipeError[1]) = "Configuration validation failed: ")

\* C19 witness: two configs that each pass on their own carry the same name, and the
\* run has failed on the validation.
C19_Witness ==
  /\ Called("validateConfigs") /\ pipePc = "threw"
  /\ Len(loaded) = 2
  /\ validateConfig(loaded[1]).success /\ validateConfig(loaded[2]).success
  /\ loaded[1].name = loaded[2].name

\* The threshold error is among the errors validateConfig reports for a rule
ThresholdErrorFor(config, ruleId) ==
  Reported(<<"Rule \"", ruleId, "\" threshold must be between -1 and 1">>,
           validateConfig(config).errors)

\* A number of the closed interval [-1, 1]
InClosedInterval(number) == number \in -1000..1000

\* C20: validateConfig reports the 'threshold must be between -1 and 1' error for a
\* rule exactly when the rule's threshold is present and outside the closed interval
\* [-1, 1] (-1, 1 and an absent threshold give no such error), so in every config
\* that passed validation every present threshold is in [-1, 1].
C20_ThresholdRange ==
  Called("validateConfigs") =>
    \A i \in 1..Len(loaded) : \A k \in 1..Len(loaded[i].rules) :
      LET entry == loaded[i].rules[k]
          threshold == entry.rule.threshold
      IN /\ ThresholdErrorFor(loaded[i], entry.key)
              <=> (threshold # None /\ ~InClosedInterval(threshold[1]))
         /\ (Called("extractIntent") /\ threshold # None) => InClosedInterval(threshold[1])


(***************************************************************************)
(* The prompt formatter (formatters/payload.ts), specified on its own      *)
(***************************************************************************)
MaxPromptFiles == 3

PromptIntents == {"", "Implement feature", "Intent only"}

\* GitFileChanges as the formatter reads them: a path and an optional beforeContent
PromptFiles ==
  {[path |-> p, beforeContent |-> b] :
     p \in {"src/example.ts", "src/second.ts"},
     b \in {None, Some(""), Some("console.log(1);")}}

PromptFileLists == UNION {[1..k -> PromptFiles] : k \in 0..MaxPromptFiles}

\* The block of one file (path, fence, beforeContent, fence), or null when the file
\* has no before-content to show
formatBeforeSection(file) ==
  IF file.beforeContent = None \/ file.beforeContent[1] = ""
  THEN None
  ELSE Some(<<"File: TICK", file.path, "TICK\nFENCE\n", file.beforeContent[1], "\nFENCE">>)

\* files.map(formatBeforeSection).filter(Boolean)
BeforeSections(files) ==
  LET mapped == [i \in 1..Len(files) |-> formatBeforeSection(files[i])]
      kept == SelectSeq(mapped, LAMBDA o : o # None)
  IN [i \in 1..Len(kept) |-> kept[i][1]]

formatPromptAlwaysJoined(intent, files) ==
  Join(<<<<intent>>, Join(BeforeSections(files), SECTION_DELIMITER)>>, SECTION_DELIMITER)

formatPrompt(intent, files) ==
  LET beforeSections == BeforeSections(files)
      segments ==
        IF Len(beforeSections) > 0
        THEN <<<<intent>>, Join(beforeSections, SECTION_DELIMITER)>>
        ELSE <<<<intent>>>>
  IN Join(segments, SECTION_DELIMITER)

FormatInit ==
  /\ ExecIdle /\ RefIdle /\ PipeIdle /\ IntentIdle /\ DiffIdle /\ SetupIdle
  /\ fmtArgs \in {[intent |-> i, files |-> fs] : i \in PromptIntents, fs \in PromptFileLists}
  /\ fmtPc = "called" /\ fmtOut = None

\* The call of formatPrompt returns
FormatPrompt ==
  /\ fmtPc = "called"
  /\ fmtOut' = Some(formatPrompt(fmtArgs.intent, fmtArgs.files))
  /\ fmtPc' = "returned"
  /\ UNCHANGED fmtArgs
  /\ UNCHANGED besideFormat

FormatNext == FormatPrompt

SpecFormat == FormatInit /\ [][FormatNext]_vars

(***************************************************************************)
(* Claims about the prompt formatter                                       *)
(***************************************************************************)
\* The files that have before-content, in file order
WithBeforeContent ==
  SelectSeq(fmtArgs.files,
            LAMBDA f : f.beforeContent # None /\ f.beforeContent[1] # "")

\* C21: the formatted prompt starts with the intent string; when some file has
\* before-content the intent is a strict prefix, followed by the delimiter and the
\* files' before-content blocks (path plus fenced content) in file order with the
\* delimiter between blocks; when no file has before-content the prompt is exactly
\* the intent string with no delimiter appended.
C21_PromptIsIntentThenBlocks ==
  fmtPc = "returned" =>
    LET prompt == fmtOut[1]
        shown == WithBeforeContent
        n == Len(shown)
    IN /\ prompt[1] = fmtArgs.intent
       /\ Len(prompt) = 1 + 6 * n
       /\ n > 0 => Len(prompt) > 1
       /\ \A k \in 1..n :
            /\ prompt[6 * k - 4] = "\n---\n"
            /\ prompt[6 * k - 3] = "File: TICK"
            /\ prompt[6 * k - 2] = shown[k].path
            /\ prompt[6 * k - 1] = "TICK\nFENCE\n"
            /\ prompt[6 * k] = shown[k].beforeContent[1]
            /\ prompt[6 * k + 1] = "\nFENCE"

\* C21 witness: a call with three files of which the first and the last have
\* before-content and the middle one has none.
C21_Witness ==
  /\ fmtPc = "returned"
  /\ Len(fmtArgs.files) = 3 /\ Len(WithBeforeContent) = 2
  /\ fmtArgs.files[2].beforeContent = None
  /\ fmtArgs.files[1].path # fmtArgs.files[3].path


(***************************************************************************)
(* validateSetupEnvironment (core.ts), specified on its own                *)
(***************************************************************************)
\* What the three checks can meet: validateGitRepository answers true or false,
\* client.getMetrics resolves (None) or rejects with a message, discoverConfig
\* returns configs or throws a message
ApiOutcomes == {None, Some("Unauthorized")}

DiscoveryOutcomes ==
  {[threw |-> None, configs |-> cs] : cs \in LoadedLists}
    \cup {[threw |-> Some("Missing config"), configs |-> <<>>]}

SetupWorlds ==
  {[isGitRepo |-> g, api |-> a, discovery |-> d] :
     g \in BOOLEAN, a \in ApiOutcomes, d \in DiscoveryOutcomes}

SetupSucceedsWithoutWarnings(errors, warnings) == Len(errors) = 0 /\ Len(warnings) = 0

\* success: errors.length === 0
SetupSucceeds(errors, warnings) == Len(errors) = 0

SetupInit ==
  /\ ExecIdle /\ RefIdle /\ PipeIdle /\ IntentIdle /\ DiffIdle /\ FormatIdle
  /\ setupWorld \in SetupWorlds
  /\ setupPc = "repository" /\ setupLog = <<>>
  /\ setupErrors = <<>> /\ setupWarnings = <<>> /\ setupOut = None

\* const isGitRepo = await validateGitRepository(workingDirectory)
CheckRepository ==
  /\ setupPc = "repository"
  /\ setupLog' = Append(setupLog, "validateGitRepository")
  /\ setupErrors' =
       IF ~setupWorld.isGitRepo
       THEN Append(setupErrors, <<"Working directory is not a git repository">>)
       ELSE setupErrors
  /\ setupPc' = "api"
  /\ UNCHANGED <<setupWorld, setupWarnings, setupOut>>
  /\ UNCHANGED besideSetup

\* await client.getMetrics({ limit: 1 }), a rejection caught
ProbeApi ==
  /\ setupPc = "api"
  /\ setupLog' = Append(setupLog, "getMetrics")
  /\ setupErrors' =
       IF setupWorld.api # None
       THEN Append(setupErrors, <<"API connection failed: ", setupWorld.api[1]>>)
       ELSE setupErrors
  /\ setupPc' = "config"
  /\ UNCHANGED <<setupWorld, setupWarnings, setupOut>>
  /\ UNCHANGED besideSetup

\* discoverConfig and validateConfigs, a failure of the discovery caught
DiscoverAndValidate ==
  /\ setupPc = "config"
  /\ LET discovery == setupWorld.discovery
         validation == validateConfigs(discovery.configs)
     IN IF discovery.threw # None
        THEN /\ setupLog' = Append(setupLog, "discoverConfig")
             /\ setupErrors' =
                  Append(setupErrors,
                         <<"Configuration discovery failed: ", discovery.threw[1]>>)
             /\ UNCHANGED setupWarnings
        ELSE /\ setupLog' = setupLog \o <<"discoverConfig", "validateConfigs">>
             /\ setupErrors' = setupErrors \o validation.errors
             /\ setupWarnings' = setupWarnings \o validation.warnings
  /\ setupPc' = "return"
  /\ UNCHANGED <<setupWorld, setupOut>>
  /\ UNCHANGED besideSetup

\* return { success: errors.length === 0, errors, warnings }
SetupReturn ==
  /\ setupPc = "return"
  /\ setupOut' = Some([success |-> SetupSucceeds(setupErrors, setupWarnings),
                       errors |-> setupErrors,
                       warnings |-> setupWarnings])
  /\ setupPc' = "returned"
  /\ UNCHANGED <<setupWorld, setupLog, setupErrors, setupWarnings>>
  /\ UNCHANGED besideSetup

SetupNext == CheckRepository \/ ProbeApi \/ DiscoverAndValidate \/ SetupReturn

SpecSetup == SetupInit /\ [][SetupNext]_vars

(***************************************************************************)
(* Claims about validateSetupEnvironment                                   *)
(***************************************************************************)
\* The errors the three checks give rise to, in the order of the checks
ExpectedSetupErrors ==
  (IF setupWorld.isGitRepo THEN <<>>
   ELSE << <<"Working directory is not a git repository">> >>)
  \o (IF setupWorld.api = None THEN <<>>
      ELSE << <<"API connection failed: ", setupWorld.api[1]>> >>)
  \o (IF setupWorld.discovery.threw # None
      THEN << <<"Configuration discovery failed: ", setupWorld.discovery.threw[1]>> >>
      ELSE validateConfigs(setupWorld.discovery.configs).errors)

ExpectedSetupWarnings ==
  IF setupWorld.discovery.threw # None THEN <<>>
  ELSE validateConfigs(setupWorld.discovery.configs).warnings

\* C22: validateSetupEnvironment ends by returning a ValidationResult (it raises
\* nothing); by then the repository check, the connectivity probe and the config
\* discovery have each run, whatever the earlier ones found; the result holds every
\* error and warning of the three, and its success is true exactly when the error
\* list is empty, warnings or not.
C22_SetupReportsEverything ==
  setupPc = "returned" =>
    /\ setupOut # None
    /\ \A check \in {"validateGitRepository", "getMetrics", "discoverConfig"} :
         \E k \in 1..Len(setupLog) : setupLog[k] = check
    /\ setupOut[1].errors = ExpectedSetupErrors
    /\ setupOut[1].warnings = ExpectedSetupWarnings
    /\ setupOut[1].success <=> (Len(setupOut[1].errors) = 0)

\* C22 witness: the directory is no repository and the probe is rejected, and the
\* discovery still ran and its configs' errors and warnings are in the result with
\* the two earlier errors.
C22_Witness ==
  /\ setupPc = "returned"
  /\ ~setupWorld.isGitRepo /\ setupWorld.api # None
  /\ setupWorld.discovery.threw = None
  /\ Len(setupOut[1].errors) > 2 /\ Len(setupOut[1].warnings) > 0


(***************************************************************************)
(* More claims about extractIntent, checked under SpecIntent               *)
(***************************************************************************)
\* The pull-request number by the stated priority
StatedPRNumber ==
  LET env == intentWorld.env
  IN IF IsSet(env.GITHUB_PR_NUMBER) THEN env.GITHUB_PR_NUMBER[1]
     ELSE IF IsSet(env.GITHUB_EVENT_PULL_REQUEST_NUMBER)
     THEN env.GITHUB_EVENT_PULL_REQUEST_NUMBER[1]
     ELSE IF env.GITHUB_REF = Some("refs/pull/123/merge") THEN "123"
     ELSE "124"

\* The pull_request object of the event payload, None when there is no payload to
\* read or it holds none
PayloadPullRequest ==
  IF /\ IsSet(intentWorld.env.GITHUB_EVENT_PATH)
     /\ intentWorld.event.file = "json"
     /\ intentWorld.event.json # None
  THEN intentWorld.event.json[1].pull_request
  ELSE None

\* C23: with no manual intent, the pull-request number is GITHUB_PR_NUMBER if set,
\* else GITHUB_EVENT_PULL_REQUEST_NUMBER, else the number in a GITHUB_REF of the form
\* refs/pull/<number>/(merge|head); once there is a number the result has source
\* github_pr and confidence 0.8, its content is the payload's pull-request body if
\* present, else its title, else a generic description naming that number, and the
\* commit log is never queried.
C23_PullRequestIntent ==
  (~IsSet(intentArgs.manualIntent) /\ PRNumberKnown /\ intentPc # "manual") =>
    /\ intentPc = "done" /\ intentErr = None /\ intentOut # None
    /\ intentOut[1].source = "github_pr"
    /\ intentOut[1].confidence = 800
    /\ intentOut[1].content =
         IF PayloadPullRequest # None /\ IsSet(PayloadPullRequest[1].body)
         THEN <<PayloadPullRequest[1].body[1]>>
         ELSE IF PayloadPullRequest # None /\ IsSet(PayloadPullRequest[1].title)
         THEN <<PayloadPullRequest[1].title[1]>>
         ELSE <<"Implement changes from GitHub PR #", StatedPRNumber>>
    /\ ~Logged("git.log")

\* C23 witness: GITHUB_PR_NUMBER is empty, the alternate variable and a pull-request
\* ref name different numbers, the payload has no body and no title, the range has
\* commits, and the result names the alternate variable's number.
C23_Witness ==
  /\ intentPc = "done" /\ ~IsSet(intentArgs.manualIntent)
  /\ intentWorld.env.GITHUB_PR_NUMBER = Some("")
  /\ intentWorld.env.GITHUB_EVENT_PULL_REQUEST_NUMBER = Some("789")
  /\ intentWorld.env.GITHUB_REF = Some("refs/pull/123/merge")
  /\ PayloadPullRequest = Some([body |-> Some(""), title |-> None])
  /\ intentWorld.git # None /\ intentArgs.base = "main"
  /\ Len(intentWorld.git[1].rangeLog) > 0
  /\ intentOut[1].content = <<"Implement changes from GitHub PR #", "789">>

\* Reading or parsing the event payload fails: the file at GITHUB_EVENT_PATH is
\* missing, is not JSON, or holds JSON null
PayloadFails ==
  /\ IsSet(intentWorld.env.GITHUB_EVENT_PATH)
  /\ \/ intentWorld.event.file \in {"missing", "malformed"}
     \/ intentWorld.event.file = "json" /\ intentWorld.event.json = None

\* C24: when a pull-request number is found but reading or parsing the event payload
\* fails, the failure is caught with a warning and the pull-request source counts as
\* having yielded nothing: the commit-message source is consulted next and no
\* github_pr intent is returned.
C24_PayloadFailureFallsThrough ==
  (~IsSet(intentArgs.manualIntent) /\ PRNumberKnown /\ PayloadFails /\ IntentSettled) =>
    /\ Logged("console.warn")
    /\ Logged("git.log")
    /\ intentOut # None => intentOut[1].source # "github_pr"


(***************************************************************************)
(* More claims about the reference resolver, checked under SpecRef         *)
(***************************************************************************)
\* selectReferences has answered for the main-branch push context
MainBranchSelected == contextType = "github-main" /\ selection # None

\* C25: in main-branch push context the selection is base HEAD^1 with strategy
\* merge-commit when the HEAD commit has two or more parents, and base HEAD~1 with
\* strategy regular-commit otherwise (a root commit with no parent and a parent
\* count that cannot be read included); the head is always HEAD.
C25_MainBranchSelection ==
  /\ (contextType = "github-main" /\ refPc \notin {"detect", "select"}) =>
       MainBranchSelected
  /\ MainBranchSelected =>
       /\ selection[1].head = "HEAD"
       /\ IF repo.headParents # None /\ repo.headParents[1] >= 2
          THEN selection[1].base = "HEAD^1" /\ selection[1].strategy = "merge-commit"
          ELSE selection[1].base = "HEAD~1" /\ selection[1].strategy = "regular-commit"

\* C25 witness: a main-branch push whose HEAD has exactly one parent was selected
\* as a regular commit.
C25_Witness ==
  /\ MainBranchSelected /\ Resolving
  /\ repo.headParents = Some(1)
  /\ selection[1].strategy = "regular-commit"


\* C28: the base/head overrides bear on the ReferenceSelection only in manual
\* context: in pull-request and main-branch push contexts resolveGitReferences ends
\* the same way (the same selection, or the same error) whatever overrides are
\* supplied, and the head of its selection is HEAD.
C28_OverridesOnlyInManualContext ==
  (Resolving /\ refPc \in {"done", "threw"}
     /\ contextType \in {"github-pr", "github-main"}) =>
    /\ \A o \in Overrides :
         resolveGitReferences([env |-> gitContext.env, options |-> o], repo)
           = [selection |-> refResult, error |-> refError]
    /\ refResult # None => refResult[1].head = "HEAD"

\* C28 witness: a main-branch push resolved with both overrides supplied, and the
\* selection is the regular-commit one with head HEAD.
C28_Witness ==
  /\ Resolving /\ refPc = "done" /\ contextType = "github-main"
  /\ gitContext.options = [base |-> Some("develop"), head |-> Some("feature")]
  /\ refResult = Some([base |-> "HEAD~1", head |-> "HEAD", strategy |-> "regular-commit"])


(***************************************************************************)
(* More claims about analyzeGitDiff, checked under SpecDiff                *)
(***************************************************************************)
\* C26: when retrieving the diff text of a file fails, analyzeGitDiff still succeeds:
\* that file is in the result with diff equal to the empty string, and every other
\* file of the diff summary is there too, in diff-summary order, with its own diff
\* and contents; analyzeGitDiff fails only when the repository check or the diff
\* summary fails, with a 'Git analysis failed' error wrapping the cause.
C26_FileDiffFailureTolerated ==
  /\ \A k \in 1..Len(diffFiles) :
       LET change == diffFiles[k]
           answer == diffAnswers[k]
       IN /\ change.path = SummaryFile(k).file
          /\ change.diff = IF answer.fileDiff = None THEN "" ELSE answer.fileDiff[1]
          /\ answer.before # "unasked" => change.beforeContent = answer.before
          /\ answer.after # "unasked" => change.afterContent = answer.after
  /\ diffPc = "returned" =>
       /\ diffOut # None /\ diffErr = None
       /\ diffOut[1].files = diffFiles
       /\ Len(diffOut[1].files) = Len(diffWorld.summary[1])
  /\ diffPc = "threw" =>
       /\ ~diffWorld.checkIsRepo \/ diffWorld.summary = None
       /\ diffOut = None /\ diffErr # None
       /\ Head(diffErr[1]) = "Git analysis failed"

\* C26 witness: the diff text of the first of two files could not be retrieved, that
\* of the second could, and the result holds both, the second with its contents.
C26_Witness ==
  /\ diffPc = "returned" /\ Len(diffOut[1].files) = 2
  /\ diffAnswers[1].fileDiff = None /\ diffOut[1].files[1].diff = ""
  /\ diffAnswers[2].fileDiff # None /\ diffOut[1].files[2].diff # ""
  /\ diffOut[1].files[2].status = "modified"
  /\ diffOut[1].files[2].beforeContent # None /\ diffOut[1].files[2].afterContent # None


(***************************************************************************)
(* More claims about MandolineCI.evaluateDiff, checked under SpecPipe      *)
(***************************************************************************)
\* The references of the call that do not resolve
Unresolved == {options.base, options.head} \ pipeWorld.resolvable

PipeSettled == pipePc \in {"returned", "threw"}

\* C27: when the base or the head passed to evaluateDiff cannot be resolved, the run
\* fails with an error naming an unresolved reference, and no configuration loading,
\* no intent extraction, no diff extraction and no scorer call takes place.
C27_UnresolvedReferenceIsFatal ==
  (Unresolved # {} /\ pipePc # "validateGitRefs") =>
    /\ pipePc = "threw" /\ pipeReturned = None /\ pipeError # None
    /\ \E ref \in Unresolved : Occurs(<<ref, "\" does not exist">>, pipeError[1])
    /\ stages = <<"validateGitRefs">>
    /\ loaded = <<>>
    /\ prepared = [intentSource |-> None, gitDiff |-> None]
    /\ pc = "idle" /\ calls = <<>>

\* C27 witness: the base resolves, the head does not, and the run has failed naming
\* the head.
C27_Witness ==
  /\ pipePc = "threw"
  /\ Unresolved = {options.head}
  /\ pipeError = Some(<<"Head reference \"", options.head, "\" does not exist">>)

\* C30: when the diff between base and head has no changed file, evaluateDiff
\* returns an empty result list with no file-pattern expansion and no scorer call;
\* it does so only after reference validation, configuration loading and validation
\* and intent extraction have succeeded, and a failure of any of them is raised all
\* the same.
C30_EmptyDiffReturnsNothing ==
  (pipeWorld.emptyDiff /\ PipeSettled) =>
    /\ ~Called("executeEvaluations") /\ pc = "idle" /\ ci = 0 /\ calls = <<>>
    /\ pipePc = "returned" =>
         /\ pipeReturned = Some(<<>>) /\ pipeError = None
         /\ stages = <<"validateGitRefs", "discoverConfig", "validateConfigs",
                       "extractIntent", "analyzeGitDiff">>
         /\ Unresolved = {}
         /\ validateConfigs(loaded).success
         /\ prepared.intentSource # None
         /\ prepared.gitDiff # None /\ prepared.gitDiff[1].files = <<>>
    /\ Unresolved # {} => pipePc = "threw"
    /\ (Called("validateConfigs") /\ ~validateConfigs(loaded).success) => pipePc = "threw"
    /\ (Called("extractIntent") /\ prepared.intentSource = None) => pipePc = "threw"
    /\ pipePc = "threw" => (pipeError # None /\ pipeReturned = None)

\* C30 witness: the diff is empty, the loaded configs have rules and file patterns,
\* and the run returned the empty list.
C30_Witness ==
  /\ pipeWorld.emptyDiff /\ pipePc = "returned"
  /\ pipeReturned = Some(<<>>)
  /\ Len(loaded) > 0 /\ Len(loaded[1].rules) > 0 /\ Len(loaded[1].files) > 0


(***************************************************************************)
(* More claims about executeEvaluations, checked under SpecExec            *)
(***************************************************************************)
\* C29: for every EvalResult, the threshold sent to the scorer in the request
\* properties, the threshold the score is compared with and the threshold recorded
\* on the result are one value; the recorded score is the score the scorer
\* returned; and the request's file_count is the number of its file_paths, which are
\* the paths of the files routed to the result's config, in order.
C29_OneThresholdPerResult ==
  \A i \in 1..Len(results) :
    LET result == results[i]
        sent == calls[i].properties
        routed == RoutedFiles(trail[i].config)
    IN /\ sent.threshold = result.threshold
       /\ result.success <=> (result.score >= result.threshold)
       /\ result.score = result.evaluation.score
       /\ result.evaluation.properties = sent
       /\ sent.file_count = Len(sent.file_paths)
       /\ sent.file_paths = [k \in 1..Len(routed) |-> routed[k].path]
       /\ result.configName = configs[trail[i].config].name

\* C29 witness: one run in which a rule with threshold 0.2 scored 0.1, above the
\* default threshold, and its result failed, and in which a request was made for two
\* routed files.
C29_Witness ==
  /\ \E i \in 1..Len(results) :
       /\ results[i].threshold = 200 /\ results[i].score = 100
       /\ results[i].score >= DEFAULT_THRESHOLD
       /\ ~results[i].success
  /\ \E j \in 1..Len(results) :
       /\ calls[j].properties.file_count = 2
       /\ Len(calls[j].properties.file_paths) = 2

====
